---- MODULE Spec2Model ----
(***************************************************************************)
(* Heimdall: the mesh connectivity graph (internal/topology), the mesh     *)
(* event loop (internal/serf) and the observer API's live distribution of  *)
(* topology updates (internal/api).                                        *)
(*                                                                         *)
(* Ten specifications share the definitions below:                         *)
(*   Spec      the operations of one Graph, each a whole call              *)
(*   LockSpec  the same operations as goroutines stepping under g.mu       *)
(*   HubSpec   WatchTopology sessions, the mesh event loop and the         *)
(*             notifyWatchers goroutines it starts                         *)
(*   BurstSpec the same under a join event that lists many members         *)
(*   RouteSpec GetServiceResources over the members and the graph          *)
(*   BuildSpec buildTopology over members of every status and tag format   *)
(*   LagSpec   one session that falls behind a burst of membership changes *)
(*   StopSpec  Mesh.Start and concurrent calls of Mesh.Stop                *)
(*   ServerSpec runServer from start to shutdown, with open sessions       *)
(*   EventSpec the callbacks of the mesh and the events that run them      *)
(***************************************************************************)
EXTENDS Integers, Sequences, FiniteSets, TLC

VARIABLES
    edges,      \* Graph.edges: map node -> neighbor list
    nUpdates,   \* Update calls made so far (bounded by MaxUpdates)
    last,       \* the call that produced the current state, with its arguments
    ret,        \* the slice that call returned, as its caller holds it
    mu,         \* Graph.mu: the goroutines holding it for writing and for reading
    gor,        \* per goroutine: where it is in its call on the Graph
    stable,     \* the map as the last finished Update left it
    gen,        \* the membership serf holds, as the number of changes it has seen
    eventCh,    \* Mesh.eventCh: the membership events not yet handled
    handling,   \* the event processEvents is handling, with the members left in its loop
    watchers,   \* ObserverService.watchers: the registered subscriber channels
    rlocks,     \* ObserverService.mu: the goroutines holding it for reading
    chan,       \* per session: the updates queued in its updateCh
    closed,     \* per session: whether its updateCh has been closed
    sess,       \* per session: where its WatchTopology call is and what it returned
    sent,       \* per session: its stream so far (the first update, the latest, how many)
    ntf,        \* per callback goroutine: where its notifyWatchers call is
    config,     \* Mesh.config: the MeshConfig the mesh was made with
    members,    \* what serf.Members() returns
    route,      \* the GetServiceResources call being answered
    built,      \* the Topology the latest buildTopology call returned
    mesh,       \* Mesh.serf, stopped, stopMu, stopCh, and what serf was asked to do
    stop,       \* per caller of Mesh.Stop: where its call is and what it returned
    main,       \* runServer: where it is, and what server.Shutdown returned
    cb,         \* Mesh.joinCallbacks, leaveCallbacks, and the event being handled
    missed,     \* the sessions that have had an update dropped on a full updateCh
    fault       \* the panic a goroutine has run into, "" when none has

graphVars == <<edges, nUpdates, last, ret>>
lockVars == <<mu, gor, stable>>

hubVars == <<gen, eventCh, handling, watchers, rlocks, chan, closed, sess, sent, ntf,
            missed, fault>>

vars == <<edges, nUpdates, last, ret, mu, gor, stable,
          gen, eventCh, handling, watchers, rlocks, chan, closed, sess, sent, ntf,
          missed, fault, config, members, route, built, mesh, stop, main, cb>>

meshVars == <<mesh, stop, main, cb>>

routeVars == <<config, members, route, built, meshVars>>

----------------------------------------------------------------------------
(* Bounds *)

MaxUpdates == 2
MaxEvents == 2
BurstMembers == 11

\* the goroutines that call into one Graph, each making one call
Procs == {"g1", "g2", "g3"}

\* the node names of the mesh: the observer and two service nodes
Nodes == {"heimdall", "a", "b"}

\* the longest neighbor list a node announces (a name may appear twice in it)
MaxNeighbors == Cardinality(Nodes) - 1

RECURSIVE SeqsUpTo(_, _)
SeqsUpTo(S, n) ==
    IF n = 0 THEN {<<>>}
    ELSE LET shorter == SeqsUpTo(S, n - 1)
         IN  shorter \cup {Append(s, x) : s \in {t \in shorter : Len(t) = n - 1}, x \in S}

Range(s) == {s[i] : i \in DOMAIN s}

----------------------------------------------------------------------------
(* Go values *)

\* A Go slice as a caller sees it: nil or not, its elements, and whether its
\* backing array is its own (fresh) or the one of g.edges[of].
NilSlice == [isnil |-> TRUE, elems |-> <<>>, fresh |-> TRUE, of |-> ""]
Slice(s) == [isnil |-> FALSE, elems |-> s, fresh |-> TRUE, of |-> ""]
Alias(s, n) == [isnil |-> FALSE, elems |-> s, fresh |-> FALSE, of |-> n]

\* g[n] of a Go map: the zero value (a nil slice, no elements) for a missing key
Lookup(g, n) == IF n \in DOMAIN g THEN g[n] ELSE <<>>

\* g[n] = v of a Go map
MapSet(g, n, v) == [k \in DOMAIN g \cup {n} |-> IF k = n THEN v ELSE g[k]]

NewGraph == [k \in {} |-> <<>>]

----------------------------------------------------------------------------
(* Event payloads and json.Unmarshal into TopologyEvent *)

\* A payload is "object" (a JSON object {"n": n, "nb": nb}), "type" (valid JSON
\* whose "nb" has the wrong type) or "syntax" (not JSON at all).
GoodPayloads ==
    [kind : {"object"}, n : Nodes, nb : SeqsUpTo(Nodes, MaxNeighbors)]
BadPayloads ==
    [kind : {"type"}, n : Nodes, nb : {<<>>}] \cup {[kind |-> "syntax", n |-> "", nb |-> <<>>]}
Payloads == GoodPayloads \cup BadPayloads

\* the payloads the goroutines of LockSpec send: lists that name each neighbor
\* once and not the announcing node
ConcurrentPayloads ==
    {d \in Payloads : /\ d.n \notin Range(d.nb)
                      /\ Cardinality(Range(d.nb)) = Len(d.nb)}

ZeroEvent == [Node |-> "", Neighbors |-> <<>>]

\* Unmarshal checks the syntax before it decodes anything; on a type error it
\* has decoded the fields that fit and reports the error.
Unmarshal(eventData) ==
    CASE eventData.kind = "object" ->
            [err |-> FALSE, event |-> [Node |-> eventData.n, Neighbors |-> eventData.nb]]
      [] eventData.kind = "type" ->
            [err |-> TRUE, event |-> [Node |-> eventData.n, Neighbors |-> <<>>]]
      [] OTHER ->
            [err |-> TRUE, event |-> ZeroEvent]

----------------------------------------------------------------------------
(* Graph.Update *)

\* a plausible bug: the announced neighbors are added to the node's list
\* where the code replaces the list by them
StoreAppended(g, event) ==
    MapSet(g, event.Node, Lookup(g, event.Node) \o event.Neighbors)

\* g.edges[event.Node] = event.Neighbors
StoreDirect(g, event) == MapSet(g, event.Node, event.Neighbors)

\* a plausible bug: the reverse edge is appended without looking for it
BackfillOneAlways(g, event, i) ==
    LET neighbor == event.Neighbors[i]
        existing == Lookup(g, neighbor)
    IN  MapSet(g, neighbor, Append(existing, event.Node))

\* one iteration of the loop over event.Neighbors
BackfillOne(g, event, i) ==
    LET neighbor == event.Neighbors[i]
        existing == Lookup(g, neighbor)
        found == \E j \in DOMAIN existing : existing[j] = event.Node
    IN  IF ~found THEN MapSet(g, neighbor, Append(existing, event.Node)) ELSE g

RECURSIVE Backfill(_, _, _)
Backfill(g, event, i) ==
    IF i > Len(event.Neighbors) THEN g
    ELSE Backfill(BackfillOne(g, event, i), event, i + 1)

\* the body of Update under g.mu
UpdateLocked(g, event) == Backfill(StoreDirect(g, event), event, 1)

\* a plausible bug: the parse error is not checked
UpdateIgnoringErr(g, eventData) == UpdateLocked(g, Unmarshal(eventData).event)

Update(g, eventData) ==
    LET r == Unmarshal(eventData)
    IN  IF r.err THEN g ELSE UpdateLocked(g, r.event)

----------------------------------------------------------------------------
(* Graph.FindPath *)

NotFound(queue, visited) ==
    [found |-> FALSE, path |-> <<>>, queue |-> queue, visited |-> visited]

\* the loop over g.edges[node] for the path taken off the queue
RECURSIVE ScanNeighbors(_, _, _, _, _, _)
ScanNeighbors(nbrs, i, path, to, queue, visited) ==
    IF i > Len(nbrs) THEN NotFound(queue, visited)
    ELSE IF nbrs[i] = to
         THEN [found |-> TRUE, path |-> Append(path, to), queue |-> queue, visited |-> visited]
    ELSE IF nbrs[i] \notin visited
         THEN ScanNeighbors(nbrs, i + 1, path, to,
                  Append(queue, Append(path, nbrs[i])), visited \cup {nbrs[i]})
    ELSE ScanNeighbors(nbrs, i + 1, path, to, queue, visited)

\* the loop "for len(queue) > 0"
RECURSIVE BFS(_, _, _, _)
BFS(g, to, queue, visited) ==
    IF queue = <<>> THEN NilSlice
    ELSE LET path == Head(queue)
             node == path[Len(path)]
             r == ScanNeighbors(Lookup(g, node), 1, path, to, Tail(queue), visited)
         IN  IF r.found THEN Slice(r.path) ELSE BFS(g, to, r.queue, r.visited)

\* a plausible bug: each neighbor is followed to the end before the next one
\* is looked at (depth first)
RECURSIVE DepthFirst(_, _, _, _, _, _)
DepthFirst(g, nbrs, i, path, to, visited) ==
    IF i > Len(nbrs) THEN NotFound(<<>>, visited)
    ELSE IF nbrs[i] = to
         THEN [found |-> TRUE, path |-> Append(path, to), queue |-> <<>>, visited |-> visited]
    ELSE IF nbrs[i] \notin visited
         THEN LET r == DepthFirst(g, Lookup(g, nbrs[i]), 1, Append(path, nbrs[i]), to,
                                  visited \cup {nbrs[i]})
              IN  IF r.found THEN r ELSE DepthFirst(g, nbrs, i + 1, path, to, r.visited)
    ELSE DepthFirst(g, nbrs, i + 1, path, to, visited)

FindPathDepthFirst(g, from, to) ==
    IF from = to THEN Slice(<<from>>)
    ELSE LET r == DepthFirst(g, Lookup(g, from), 1, <<from>>, to, {from})
         IN  IF r.found THEN Slice(r.path) ELSE NilSlice

\* a plausible bug: the search starts at the target, and the path it finds
\* is returned as found, last node first
FindPathFromTarget(g, from, to) ==
    IF from = to THEN Slice(<<from>>)
    ELSE BFS(g, from, <<<<to>>>>, {to})

\* a plausible bug: no shortcut for from = to
FindPathNoShortcut(g, from, to) == BFS(g, to, <<<<from>>>>, {from})

FindPath(g, from, to) ==
    IF from = to THEN Slice(<<from>>)
    ELSE BFS(g, to, <<<<from>>>>, {from})

----------------------------------------------------------------------------
(* Graph.GetNeighbors *)

\* a plausible bug: the map's own slice is returned
GetNeighborsNoCopy(g, node) ==
    IF node \in DOMAIN g THEN Alias(g[node], node) ELSE NilSlice

\* make + copy: a slice of its own, never nil
GetNeighbors(g, node) == Slice(Lookup(g, node))

----------------------------------------------------------------------------
(* Values of the sessions, the event loop and the goroutines; Init *)

\* the streaming sessions and the goroutines the mesh starts for its callbacks
Sessions == {"s1", "s2"}
NotifierSlots == <<"n1", "n2">>
Notifiers == Range(NotifierSlots)

\* make(chan *observerv1.TopologyUpdate, 10)
ChanCap == 10

\* make(chan serf.Event, 256)
EventChCap == 256

\* a TopologyUpdate: its type, the membership its topology was built from, and
\* who built it ("initial": WatchTopology, "notify": notifyWatchers)
NoUpdate == [UpdateType |-> "UNSPECIFIED", Topology |-> 0, origin |-> "none"]
\* a plausible bug: the update's type is left unset
UntypedUpdate(topology, origin) ==
    [UpdateType |-> "UNSPECIFIED", Topology |-> topology, origin |-> origin]

FullUpdate(topology, origin) ==
    [UpdateType |-> "FULL", Topology |-> topology, origin |-> origin]

\* a stream nothing was sent on
NoStream == [n |-> 0, first |-> NoUpdate, latest |-> NoUpdate]

\* stream.Send(update) that succeeds; the count stops at "more than one"
StreamSend(stream, update) ==
    [n |-> IF stream.n < 2 THEN stream.n + 1 ELSE 2,
     first |-> IF stream.n = 0 THEN update ELSE stream.first,
     latest |-> update]

\* a serf.MemberEvent: its type and the number of members it lists
NoEvent == [kind |-> "none", members |-> 0]

NotRunning == [pc |-> "idle", update |-> NoUpdate, todo |-> {}, dropped |-> {}]

\* a WatchTopology call not yet made: where it is, the initial update it
\* built, and the error it returned ("none" while it runs, "nil", "send")
NoSession == [pc |-> "idle", initial |-> NoUpdate, err |-> "none"]

\* a goroutine that is in no call
Idle == [pc |-> "idle", event |-> ZeroEvent, i |-> 0, from |-> "", to |-> "", out |-> NilSlice]

\* a goroutine whose call has returned
Returned == [Idle EXCEPT !.pc = "returned"]

\* parseMeshConfig: the configuration main makes its mesh with
parseMeshConfig == [NodeName |-> "heimdall"]

\* no GetServiceResources call answered: the error code of the answer, the
\* FindPath and outbound calls made for it, what the outbound call came to,
\* and what the call worked out
NoRoute ==
    [called |-> FALSE, serviceName |-> "", code |-> "", findPath |-> 0, calls |-> 0,
     http |-> "", source |-> "",
     host |-> "", path |-> NilSlice, entryNode |-> "", entryAddr |-> "",
     request |-> [url |-> "", serviceName |-> "", path |-> <<>>, currentHop |-> 0]]

\* the callers of Mesh.Stop: runServer and two other goroutines
StopCallers == {"main", "c1", "c2"}

\* a mesh NewMesh has made: m.serf nil, not stopped, stopMu free, stopCh
\* open (closes counts the close(m.stopCh) calls), and no serf.Leave or
\* serf.Shutdown call made
NewMeshState ==
    [serf |-> FALSE, stopped |-> FALSE, stopMu |-> "", closes |-> 0,
     leaves |-> 0, shutdowns |-> 0]

\* a Stop call not yet made: where it is, the error it returned ("none"
\* while it has not returned), whether m.serf was set when it looked,
\* whether a successful Stop had returned before it began, and whether it
\* closed m.stopCh and went on to leave
NoStop ==
    [pc |-> "idle", err |-> "none", started |-> FALSE, after |-> FALSE,
     acted |-> FALSE]

\* runServer before the mesh is made: where it is, and the API server ("up"
\* until server.Shutdown has returned, then what it returned)
NotServing == [pc |-> "init", api |-> "up"]

\* no callback registered and no event being handled: the two callback
\* slices (a registration is named by the function registered), the event
\* handleEvent is in (its type, its members, the members done), the
\* callbacks that were registered when it began, the callback goroutines
\* started for it, and the names in m.members
NoCallbacks ==
    [join |-> <<>>, leave |-> <<>>, members |-> {},
     event |-> [kind |-> "none", members |-> <<>>, done |-> 0, handled |-> FALSE],
     before |-> [join |-> <<>>, leave |-> <<>>],
     started |-> <<>>]

\* no Topology built yet (again: the caller had one at hand when it asked)
NoTopology == [built |-> FALSE, again |-> FALSE, Services |-> <<>>, Timestamp |-> 0]

\* no call made (again: the call repeats the one before it, same event name
\* and same payload)
NoCall == [op |-> "none", name |-> "", data |-> <<>>, from |-> "", to |-> "",
           again |-> FALSE]

Init ==
    /\ edges = NewGraph
    /\ nUpdates = 0
    /\ last = NoCall
    /\ ret = NilSlice
    /\ mu = [w |-> {}, r |-> {}]
    /\ gor = [p \in Procs |-> Idle]
    /\ stable = NewGraph
    /\ gen = 0
    /\ eventCh = <<>>
    /\ handling = NoEvent
    /\ watchers = {}
    /\ rlocks = {}
    /\ chan = [s \in Sessions |-> <<>>]
    /\ closed = [s \in Sessions |-> FALSE]
    /\ sess = [s \in Sessions |-> NoSession]
    /\ sent = [s \in Sessions |-> NoStream]
    /\ ntf = [n \in Notifiers |-> NotRunning]
    /\ config = parseMeshConfig
    /\ members = <<>>
    /\ route = NoRoute
    /\ built = NoTopology
    /\ mesh = NewMeshState
    /\ stop = [c \in StopCallers |-> NoStop]
    /\ main = NotServing
    /\ cb = NoCallbacks
    /\ missed = {}
    /\ fault = ""

----------------------------------------------------------------------------
(* Spec: whole calls on one Graph *)

\* Mesh.handleUserEvent: only "topology" events reach Graph.Update
handleUserEvent(name, eventData) ==
    /\ nUpdates < MaxUpdates
    /\ nUpdates' = nUpdates + 1
    /\ edges' = IF name = "topology" THEN Update(edges, eventData) ELSE edges
    /\ last' = [NoCall EXCEPT !.op = "handleUserEvent", !.name = name,
                              !.data = <<eventData>>,
                              !.again = (/\ last.op = "handleUserEvent"
                                         /\ last.name = name
                                         /\ last.data = <<eventData>>)]
    /\ ret' = NilSlice
    /\ UNCHANGED <<lockVars, hubVars, routeVars>>

DoFindPath(from, to) ==
    /\ ret' = FindPath(edges, from, to)
    /\ last' = [NoCall EXCEPT !.op = "FindPath", !.from = from, !.to = to]
    /\ UNCHANGED <<edges, nUpdates>>
    /\ UNCHANGED <<lockVars, hubVars, routeVars>>

DoGetNeighbors(node) ==
    /\ ret' = GetNeighbors(edges, node)
    /\ last' = [NoCall EXCEPT !.op = "GetNeighbors", !.from = node]
    /\ UNCHANGED <<edges, nUpdates>>
    /\ UNCHANGED <<lockVars, hubVars, routeVars>>

\* the caller of GetNeighbors writes result[i] = v; the write lands in the
\* backing array of the slice it was given
WriteResult(i, v) ==
    /\ last.op = "GetNeighbors"
    /\ i \in DOMAIN ret.elems
    /\ ret' = [ret EXCEPT !.elems[i] = v]
    /\ edges' = IF ret.fresh THEN edges
                ELSE [edges EXCEPT ![ret.of][i] = v]
    /\ last' = [NoCall EXCEPT !.op = "WriteResult", !.from = last.from]
    /\ UNCHANGED nUpdates
    /\ UNCHANGED <<lockVars, hubVars, routeVars>>

Next ==
    \/ \E name \in {"topology", "other"}, p \in Payloads : handleUserEvent(name, p)
    \/ \E from \in Nodes, to \in Nodes : DoFindPath(from, to)
    \/ \E node \in Nodes : DoGetNeighbors(node)
    \/ \E i \in 1..(MaxNeighbors + Cardinality(Nodes)), v \in Nodes : WriteResult(i, v)

Spec == Init /\ [][Next]_vars

----------------------------------------------------------------------------
(* Properties of the Graph, checked under Spec *)

HasEdge(g, a, b) == a \in DOMAIN g /\ b \in Range(g[a])

\* p is a sequence of recorded edges leading from a to b
IsWalk(g, p, a, b) ==
    /\ Len(p) >= 1
    /\ p[1] = a
    /\ p[Len(p)] = b
    /\ \A i \in 1..(Len(p) - 1) : HasEdge(g, p[i], p[i + 1])

\* every node sequence without more elements than there are nodes; a walk
\* with more elements repeats a node and has a shorter walk inside it
Walks == SeqsUpTo(Nodes, Cardinality(Nodes)) \ {<<>>}

\* the names that appear in the graph, as a key or in a list
Mentioned(g) == DOMAIN g \cup UNION {Range(g[k]) : k \in DOMAIN g}

WasUpdate(call) == call.op = "handleUserEvent" /\ call.name = "topology"
Parsed(call) == WasUpdate(call) /\ call.data[1].kind = "object"
Unparsed(call) == WasUpdate(call) /\ call.data[1].kind # "object"

\* C1 (as claimed): after any sequence of Update calls, every recorded edge
\* a->b has its reverse edge b->a recorded.
C1_Symmetry ==
    \A a \in DOMAIN edges : \A b \in Range(edges[a]) : HasEdge(edges, b, a)

\* C2: FindPath(a, b) with a # b returns nil exactly when no sequence of
\* recorded edges leads from a to b, and otherwise returns such a sequence
\* with no more edges than any other.
C2_ShortestPath ==
    (last.op = "FindPath" /\ last.from # last.to) =>
        LET walks == {p \in Walks : IsWalk(edges, p, last.from, last.to)}
        IN  /\ ret.isnil <=> walks = {}
            /\ ~ret.isnil =>
                  /\ IsWalk(edges, ret.elems, last.from, last.to)
                  /\ \A p \in walks : Len(ret.elems) <= Len(p)

\* FindPath returned a direct edge although a walk of two edges over a third
\* node leads to the target as well
C2_Witness ==
    /\ last.op = "FindPath"
    /\ last.from # last.to
    /\ ~ret.isnil
    /\ Len(ret.elems) = 2
    /\ \E p \in Walks : Len(p) = 3 /\ IsWalk(edges, p, last.from, last.to)
                        /\ p[2] \notin {last.from, last.to}

\* C3: FindPath(x, x) returns the one-element path [x], whatever the graph
\* holds, also for a name no Update has mentioned.
C3_SelfPath ==
    (last.op = "FindPath" /\ last.from = last.to) =>
        (~ret.isnil /\ ret.elems = <<last.from>>)

\* FindPath(x, x) was asked of a graph that has edges, none of them naming x
C3_Witness ==
    /\ last.op = "FindPath"
    /\ last.from = last.to
    /\ edges # NewGraph
    /\ last.from \notin Mentioned(edges)
    /\ ret.elems = <<last.from>>

\* what one Update(A, L) makes of the map old
UpdatePost(A, L, old, new) ==
    /\ A \in DOMAIN new
    /\ new[A] = L
    /\ \A B \in Range(L) : HasEdge(new, A, B) /\ HasEdge(new, B, A)
    /\ \A B \in Range(L) \ {A} :
          new[B] = IF A \in Range(Lookup(old, B)) THEN Lookup(old, B)
                   ELSE Append(Lookup(old, B), A)
    /\ \A C \in (DOMAIN old \cup DOMAIN new) \ (Range(L) \cup {A}) :
          C \in DOMAIN old /\ C \in DOMAIN new /\ new[C] = old[C]

\* C4: right after one Update(A, L) the list of A is exactly L, both A->B and
\* B->A are recorded for every B in L, A is appended to the list of B only
\* when that list does not hold A yet, and no other list has changed.
C4_UpdateEffect ==
    [][Parsed(last') =>
          UpdatePost(last'.data[1].n, last'.data[1].nb, edges, edges')]_vars

\* an Update whose list names the same neighbor twice: the second time round
\* the reverse edge is already there
C4_Witness ==
    /\ Parsed(last)
    /\ Len(last.data[1].nb) = 2
    /\ last.data[1].nb[1] = last.data[1].nb[2]
    /\ last.data[1].nb[1] # last.data[1].n
    /\ edges[last.data[1].nb[1]] # <<last.data[1].n>>

\* C5: an Update whose payload does not parse leaves the map as it was, and
\* every FindPath and GetNeighbors answers as before it.
C5_MalformedIgnored ==
    [][Unparsed(last') =>
          /\ edges' = edges
          /\ \A a \in Nodes, b \in Nodes : FindPath(edges', a, b) = FindPath(edges, a, b)
          /\ \A a \in Nodes : GetNeighbors(edges', a) = GetNeighbors(edges, a)]_vars

\* an unparseable payload for a node that has neighbors recorded
C5_Witness ==
    /\ Unparsed(last)
    /\ last.data[1].kind = "type"
    /\ Lookup(edges, last.data[1].n) # <<>>

\* C6: GetNeighbors returns the node's list as a slice that is never nil
\* (empty for a node without an entry), and a write to the returned slice
\* changes nothing in the graph.
C6_DefensiveCopy ==
    [][/\ last'.op = "GetNeighbors" =>
             /\ ~ret'.isnil
             /\ ret'.elems = Lookup(edges, last'.from)
             /\ edges' = edges
       /\ last'.op = "WriteResult" =>
             /\ edges' = edges
             /\ ret'.elems # ret.elems => ret'.elems # Lookup(edges', last'.from)]_vars

\* the caller has overwritten an element of the slice it got for a node
C6_Witness ==
    /\ last.op = "WriteResult"
    /\ last.from \in DOMAIN edges
    /\ ret.elems # edges[last.from]

----------------------------------------------------------------------------
(* LockSpec: the calls as goroutines stepping under Graph.mu *)

\* sync.RWMutex: Lock waits until nobody holds the mutex
CanLockAmongReaders(m) == m.w = {}

CanLock(m) == m.w = {} /\ m.r = {}

\* sync.RWMutex: RLock waits until no writer holds the mutex
CanRLock(m) == m.w = {}

\* Update up to g.mu.Lock(): the payload is parsed; on an error the call
\* returns at once
UpdateBegin(p, eventData) ==
    /\ gor[p].pc = "idle"
    /\ LET r == Unmarshal(eventData)
       IN  gor' = [gor EXCEPT ![p] =
                     IF r.err THEN Returned
                     ELSE [Idle EXCEPT !.pc = "lock", !.event = r.event]]
    /\ UNCHANGED <<mu, stable, edges>>
    /\ UNCHANGED <<nUpdates, last, ret, hubVars, routeVars>>

\* g.mu.Lock()
UpdateLock(p) ==
    /\ gor[p].pc = "lock"
    /\ CanLock(mu)
    /\ mu' = [mu EXCEPT !.w = @ \cup {p}]
    /\ gor' = [gor EXCEPT ![p].pc = "store"]
    /\ UNCHANGED <<stable, edges>>
    /\ UNCHANGED <<nUpdates, last, ret, hubVars, routeVars>>

\* g.edges[event.Node] = event.Neighbors
UpdateStore(p) ==
    /\ gor[p].pc = "store"
    /\ edges' = StoreDirect(edges, gor[p].event)
    /\ gor' = [gor EXCEPT ![p].pc = "backfill", ![p].i = 1]
    /\ UNCHANGED <<mu, stable>>
    /\ UNCHANGED <<nUpdates, last, ret, hubVars, routeVars>>

\* one iteration of the loop over event.Neighbors
UpdateBackfill(p) ==
    /\ gor[p].pc = "backfill"
    /\ gor[p].i <= Len(gor[p].event.Neighbors)
    /\ edges' = BackfillOne(edges, gor[p].event, gor[p].i)
    /\ gor' = [gor EXCEPT ![p].i = @ + 1]
    /\ UNCHANGED <<mu, stable>>
    /\ UNCHANGED <<nUpdates, last, ret, hubVars, routeVars>>

\* the deferred g.mu.Unlock() after the loop
UpdateUnlock(p) ==
    /\ gor[p].pc = "backfill"
    /\ gor[p].i > Len(gor[p].event.Neighbors)
    /\ mu' = [mu EXCEPT !.w = @ \ {p}]
    /\ stable' = edges
    /\ gor' = [gor EXCEPT ![p] = Returned]
    /\ UNCHANGED <<edges>>
    /\ UNCHANGED <<nUpdates, last, ret, hubVars, routeVars>>

\* FindPath(from, to) or GetNeighbors(from) is called
ReadBegin(p, op, from, to) ==
    /\ gor[p].pc = "idle"
    /\ gor' = [gor EXCEPT ![p] = [Idle EXCEPT !.pc = op, !.from = from, !.to = to]]
    /\ UNCHANGED <<mu, stable, edges>>
    /\ UNCHANGED <<nUpdates, last, ret, hubVars, routeVars>>

\* g.mu.RLock()
ReadRLock(p) ==
    /\ gor[p].pc \in {"FindPath", "GetNeighbors"}
    /\ CanRLock(mu)
    /\ mu' = [mu EXCEPT !.r = @ \cup {p}]
    /\ gor' = [gor EXCEPT ![p].pc = @ \o ".locked"]
    /\ UNCHANGED <<stable, edges>>
    /\ UNCHANGED <<nUpdates, last, ret, hubVars, routeVars>>

\* the body of FindPath or GetNeighbors, reading g.edges
ReadBody(p) ==
    /\ gor[p].pc \in {"FindPath.locked", "GetNeighbors.locked"}
    /\ gor' = [gor EXCEPT ![p].pc = "runlock",
                          ![p].out = IF gor[p].pc = "FindPath.locked"
                                     THEN FindPath(edges, gor[p].from, gor[p].to)
                                     ELSE GetNeighbors(edges, gor[p].from)]
    /\ UNCHANGED <<mu, stable, edges>>
    /\ UNCHANGED <<nUpdates, last, ret, hubVars, routeVars>>

\* the deferred g.mu.RUnlock()
ReadRUnlock(p) ==
    /\ gor[p].pc = "runlock"
    /\ mu' = [mu EXCEPT !.r = @ \ {p}]
    /\ gor' = [gor EXCEPT ![p] = Returned]
    /\ UNCHANGED <<stable, edges>>
    /\ UNCHANGED <<nUpdates, last, ret, hubVars, routeVars>>

LockNext ==
    \/ \E p \in Procs, d \in ConcurrentPayloads : UpdateBegin(p, d)
    \/ \E p \in Procs : UpdateLock(p)
    \/ \E p \in Procs : UpdateStore(p)
    \/ \E p \in Procs : UpdateBackfill(p)
    \/ \E p \in Procs : UpdateUnlock(p)
    \/ \E p \in Procs, from \in Nodes, to \in Nodes : ReadBegin(p, "FindPath", from, to)
    \/ \E p \in Procs, node \in Nodes : ReadBegin(p, "GetNeighbors", node, "")
    \/ \E p \in Procs : ReadRLock(p)
    \/ \E p \in Procs : ReadBody(p)
    \/ \E p \in Procs : ReadRUnlock(p)

LockSpec == Init /\ [][LockNext]_vars

\* the goroutines between Lock and Unlock, and between RLock and RUnlock
Writing == {p \in Procs : gor[p].pc \in {"store", "backfill"}}
Reading == {p \in Procs : gor[p].pc \in {"FindPath.locked", "GetNeighbors.locked", "runlock"}}

\* C7: Updates exclude each other and every read; a read that holds the
\* mutex sees the map as a finished Update (or none yet) left it, never the
\* forward edges of an Update without its reverse edges.
C7_Atomic ==
    /\ Cardinality(Writing) <= 1
    /\ Writing # {} => Reading = {}
    /\ Reading # {} => edges = stable
    /\ \A p \in Procs : gor[p].pc = "runlock" =>
          gor[p].out \in {FindPath(stable, gor[p].from, gor[p].to),
                          GetNeighbors(stable, gor[p].from)}

\* an Update has stored its forward edge and not yet the reverse one, while
\* two readers wait for the mutex
C7_Witness ==
    /\ \E p \in Writing :
          /\ gor[p].pc = "backfill"
          /\ gor[p].i = 1
          /\ \E b \in Range(gor[p].event.Neighbors) :
                HasEdge(edges, gor[p].event.Node, b) /\ ~HasEdge(edges, b, gor[p].event.Node)
    /\ edges # stable
    /\ Cardinality({p \in Procs : gor[p].pc \in {"FindPath", "GetNeighbors"}}) = 2

\* two reads hold the mutex at once while an Update waits for it
C7_ReadsOverlap ==
    /\ Cardinality(Reading) = 2
    /\ \E p \in Procs : gor[p].pc = "lock"

----------------------------------------------------------------------------
(* HubSpec: WatchTopology sessions, the mesh event loop, notifyWatchers *)

graphAndLockVars == <<edges, nUpdates, last, ret, mu, gor, stable>>

\* serf changes its membership and puts the event, listing the members it
\* is about, on conf.EventCh
MemberChange(kind, count) ==
    /\ Len(eventCh) < EventChCap
    /\ gen' = gen + 1
    /\ eventCh' = Append(eventCh, [kind |-> kind, members |-> count])
    /\ UNCHANGED <<handling, watchers, rlocks, chan, closed, sess, sent, ntf, fault>>
    /\ UNCHANGED <<graphAndLockVars, routeVars, missed>>

\* the callbacks an event type runs for each member: NewObserverService has
\* put notifyWatchers on OnJoin and on OnLeave
Callbacks(kind) ==
    IF kind \in {"join", "leave", "failed"} THEN 1 ELSE 0

\* processEvents takes the next event off eventCh and handleEvent dispatches it
processEvents ==
    /\ handling.members = 0
    /\ eventCh # <<>>
    /\ handling' = IF Callbacks(Head(eventCh).kind) = 0 THEN NoEvent ELSE Head(eventCh)
    /\ eventCh' = Tail(eventCh)
    /\ UNCHANGED <<gen, watchers, rlocks, chan, closed, sess, sent, ntf, fault>>
    /\ UNCHANGED <<graphAndLockVars, routeVars, missed>>

\* one iteration of the loop over e.Members in handleMemberJoin and
\* handleMemberLeave: "go fn(member)" starts the callback and goes on
handleMember ==
    /\ handling.members > 0
    /\ \E i \in DOMAIN NotifierSlots : ntf[NotifierSlots[i]].pc = "idle"
    /\ LET free == {i \in DOMAIN NotifierSlots : ntf[NotifierSlots[i]].pc = "idle"}
           n == NotifierSlots[CHOOSE i \in free : \A j \in free : i <= j]
       IN  ntf' = [ntf EXCEPT ![n].pc = "started"]
    /\ handling' = IF handling.members = 1 THEN NoEvent
                   ELSE [handling EXCEPT !.members = @ - 1]
    /\ UNCHANGED <<gen, eventCh, watchers, rlocks, chan, closed, sess, sent, fault>>
    /\ UNCHANGED <<graphAndLockVars, routeVars, missed>>

\* notifyWatchers: s.mu.RLock() and the test len(s.watchers) == 0, on which
\* the call returns (the deferred RUnlock runs)
notifyWatchersBegin(n) ==
    /\ ntf[n].pc = "started"
    /\ IF watchers = {}
       THEN /\ ntf' = [ntf EXCEPT ![n] = NotRunning]
            /\ UNCHANGED rlocks
       ELSE /\ ntf' = [ntf EXCEPT ![n].pc = "build"]
            /\ rlocks' = rlocks \cup {n}
    /\ UNCHANGED <<gen, eventCh, handling, watchers, chan, closed, sess, sent, fault>>
    /\ UNCHANGED <<graphAndLockVars, routeVars, missed>>

\* topology := s.buildTopology(), the update made of it, and the start of
\* the loop over s.watchers
notifyWatchersBuild(n) ==
    /\ ntf[n].pc = "build"
    /\ ntf' = [ntf EXCEPT ![n].pc = "range",
                          ![n].update = FullUpdate(gen, "notify"),
                          ![n].todo = watchers]
    /\ UNCHANGED <<gen, eventCh, handling, watchers, rlocks, chan, closed, sess, sent, fault>>
    /\ UNCHANGED <<graphAndLockVars, routeVars, missed>>

\* a plausible bug: the select has no default case
SelectSendBlocking(queue, update) ==
    [blocked |-> Len(queue) >= ChanCap, sent |-> TRUE, queue |-> Append(queue, update)]

\* a plausible bug: a full channel gives up its oldest update for the new one
SelectSendDropOldest(queue, update) ==
    IF Len(queue) < ChanCap
    THEN [blocked |-> FALSE, sent |-> TRUE, queue |-> Append(queue, update)]
    ELSE [blocked |-> FALSE, sent |-> FALSE, queue |-> Append(Tail(queue), update)]

\* a plausible bug: an update is queued only for a subscriber that has
\* nothing waiting
SelectSendWhenEmpty(queue, update) ==
    IF Len(queue) = 0
    THEN [blocked |-> FALSE, sent |-> TRUE, queue |-> Append(queue, update)]
    ELSE [blocked |-> FALSE, sent |-> FALSE, queue |-> queue]

\* select { case ch <- update: default: } on an open channel
SelectSend(queue, update) ==
    IF Len(queue) < ChanCap
    THEN [blocked |-> FALSE, sent |-> TRUE, queue |-> Append(queue, update)]
    ELSE [blocked |-> FALSE, sent |-> FALSE, queue |-> queue]

\* a plausible bug: a subscriber whose channel is full is taken out of the
\* registry and its session is ended
notifyWatchersSendEvict(n, ch) ==
    /\ ntf[n].pc = "range"
    /\ ch \in ntf[n].todo
    /\ ~closed[ch]
    /\ LET r == SelectSend(chan[ch], ntf[n].update)
       IN  /\ chan' = [chan EXCEPT ![ch] = r.queue]
           /\ ntf' = [ntf EXCEPT ![n].todo = @ \ {ch},
                                 ![n].dropped = IF r.sent THEN @ ELSE @ \cup {ch}]
           /\ missed' = IF r.sent THEN missed ELSE missed \cup {ch}
           /\ watchers' = IF r.sent THEN watchers ELSE watchers \ {ch}
           /\ sess' = IF r.sent THEN sess
                      ELSE [sess EXCEPT ![ch].pc = "close", ![ch].err = "slow"]
    /\ UNCHANGED <<gen, eventCh, handling, rlocks, closed, sent, fault>>
    /\ UNCHANGED <<graphAndLockVars, routeVars>>

\* one iteration of "for ch := range s.watchers", in the order the map gives
notifyWatchersSend(n, ch) ==
    /\ ntf[n].pc = "range"
    /\ ch \in ntf[n].todo
    /\ IF closed[ch]
       THEN /\ fault' = "send on closed channel"
            /\ ntf' = [ntf EXCEPT ![n].todo = @ \ {ch}]
            /\ UNCHANGED <<chan, missed>>
       ELSE LET r == SelectSend(chan[ch], ntf[n].update)
            IN  /\ ~r.blocked
                /\ chan' = [chan EXCEPT ![ch] = r.queue]
                /\ ntf' = [ntf EXCEPT ![n].todo = @ \ {ch},
                                      ![n].dropped = IF r.sent THEN @ ELSE @ \cup {ch}]
                /\ missed' = IF r.sent THEN missed ELSE missed \cup {ch}
                /\ UNCHANGED fault
    /\ UNCHANGED <<gen, eventCh, handling, watchers, rlocks, closed, sess, sent>>
    /\ UNCHANGED <<graphAndLockVars, routeVars>>

\* the loop is over: the deferred s.mu.RUnlock()
notifyWatchersReturn(n) ==
    /\ ntf[n].pc = "range"
    /\ ntf[n].todo = {}
    /\ rlocks' = rlocks \ {n}
    /\ ntf' = [ntf EXCEPT ![n] = NotRunning]
    /\ UNCHANGED <<gen, eventCh, handling, watchers, chan, closed, sess, sent, fault>>
    /\ UNCHANGED <<graphAndLockVars, routeVars, missed>>

\* a plausible bug: s.mu.Lock() does not wait for the broadcasts under way
CanLockServiceAnyway(readers) == TRUE

\* s.mu.Lock() of the ObserverService: waits until no notifyWatchers holds
\* s.mu for reading (the sections under Lock are single steps here)
CanLockService(readers) == readers = {}

\* a plausible bug: the channel is closed but left in the registry
DeregisteredNothing(registry, ch) == registry

\* delete(s.watchers, updateCh)
Deregistered(registry, ch) == registry \ {ch}

\* a plausible bug: nothing is sent before the channel is registered
FirstSendNothing(stream, update) == stream

\* what WatchTopology sends before it registers its channel
FirstSend(stream, update) == StreamSend(stream, update)

\* WatchTopology: initialTopology := s.buildTopology()
WatchTopologyBegin(s) ==
    /\ sess[s].pc = "idle"
    /\ sess' = [sess EXCEPT ![s].pc = "send", ![s].initial = FullUpdate(gen, "initial")]
    /\ UNCHANGED <<gen, eventCh, handling, watchers, rlocks, chan, closed, sent, ntf, fault>>
    /\ UNCHANGED <<graphAndLockVars, routeVars, missed>>

\* a plausible bug: the channel is put into s.watchers before the initial
\* send, so a call that returns on the send's error leaves it there
WatchTopologySendInitialRegistered(s, ok) ==
    /\ sess[s].pc = "send"
    /\ IF ok
       THEN /\ sent' = [sent EXCEPT ![s] = FirstSend(@, sess[s].initial)]
            /\ sess' = [sess EXCEPT ![s].pc = "register"]
            /\ UNCHANGED watchers
       ELSE /\ sess' = [sess EXCEPT ![s].pc = "failed", ![s].err = "send"]
            /\ watchers' = watchers \cup {s}
            /\ UNCHANGED sent
    /\ UNCHANGED <<gen, eventCh, handling, rlocks, chan, closed, ntf, fault>>
    /\ UNCHANGED <<graphAndLockVars, routeVars, missed>>

\* stream.Send of the initial update; on an error the call returns it
WatchTopologySendInitial(s, ok) ==
    /\ sess[s].pc = "send"
    /\ IF ok
       THEN /\ sent' = [sent EXCEPT ![s] = FirstSend(@, sess[s].initial)]
            /\ sess' = [sess EXCEPT ![s].pc = "register"]
       ELSE /\ sess' = [sess EXCEPT ![s].pc = "failed", ![s].err = "send"]
            /\ UNCHANGED sent
    /\ UNCHANGED <<gen, eventCh, handling, watchers, rlocks, chan, closed, ntf, fault>>
    /\ UNCHANGED <<graphAndLockVars, routeVars, missed>>

\* updateCh is made and put into s.watchers under s.mu.Lock()
WatchTopologyRegister(s) ==
    /\ sess[s].pc = "register"
    /\ CanLockService(rlocks)
    /\ watchers' = watchers \cup {s}
    /\ sess' = [sess EXCEPT ![s].pc = "loop"]
    /\ UNCHANGED <<gen, eventCh, handling, rlocks, chan, closed, sent, ntf, fault>>
    /\ UNCHANGED <<graphAndLockVars, routeVars, missed>>

\* case update := <-updateCh, and stream.Send(update); on an error the call
\* returns it
WatchTopologyRecv(s, ok) ==
    /\ sess[s].pc = "loop"
    /\ chan[s] # <<>>
    /\ chan' = [chan EXCEPT ![s] = Tail(@)]
    /\ IF ok
       THEN /\ sent' = [sent EXCEPT ![s] = StreamSend(@, Head(chan[s]))]
            /\ UNCHANGED sess
       ELSE /\ sess' = [sess EXCEPT ![s].pc = "cleanup", ![s].err = "send"]
            /\ UNCHANGED sent
    /\ UNCHANGED <<gen, eventCh, handling, watchers, rlocks, closed, ntf, fault>>
    /\ UNCHANGED <<graphAndLockVars, routeVars, missed>>

\* case <-ctx.Done(): return nil
WatchTopologyCancel(s) ==
    /\ sess[s].pc = "loop"
    /\ sess' = [sess EXCEPT ![s].pc = "cleanup", ![s].err = "nil"]
    /\ UNCHANGED <<gen, eventCh, handling, watchers, rlocks, chan, closed, sent, ntf, fault>>
    /\ UNCHANGED <<graphAndLockVars, routeVars, missed>>

\* the deferred function: delete(s.watchers, updateCh) under s.mu.Lock()
WatchTopologyDeregister(s) ==
    /\ sess[s].pc = "cleanup"
    /\ CanLockService(rlocks)
    /\ watchers' = Deregistered(watchers, s)
    /\ sess' = [sess EXCEPT ![s].pc = "close"]
    /\ UNCHANGED <<gen, eventCh, handling, rlocks, chan, closed, sent, ntf, fault>>
    /\ UNCHANGED <<graphAndLockVars, routeVars, missed>>

\* the deferred function: close(updateCh), and the call returns; the session
\* was the only receiver, so what the buffer still held is never read
WatchTopologyClose(s) ==
    /\ sess[s].pc = "close"
    /\ fault' = IF closed[s] THEN "close of closed channel" ELSE fault
    /\ closed' = [closed EXCEPT ![s] = TRUE]
    /\ chan' = [chan EXCEPT ![s] = <<>>]
    /\ sess' = [sess EXCEPT ![s].pc = "ended"]
    /\ UNCHANGED <<gen, eventCh, handling, watchers, rlocks, sent, ntf>>
    /\ UNCHANGED <<graphAndLockVars, routeVars, missed>>

HubNext ==
    \/ \E kind \in {"join", "leave"} :
          /\ gen < MaxEvents
          /\ MemberChange(kind, 1)
    \/ processEvents
    \/ handleMember
    \/ \E n \in Notifiers : notifyWatchersBegin(n)
    \/ \E n \in Notifiers : notifyWatchersBuild(n)
    \/ \E n \in Notifiers, ch \in Sessions : notifyWatchersSend(n, ch)
    \/ \E n \in Notifiers : notifyWatchersReturn(n)
    \/ \E s \in Sessions : WatchTopologyBegin(s)
    \/ \E s \in Sessions, ok \in BOOLEAN : WatchTopologySendInitial(s, ok)
    \/ \E s \in Sessions : WatchTopologyRegister(s)
    \/ \E s \in Sessions, ok \in BOOLEAN : WatchTopologyRecv(s, ok)
    \/ \E s \in Sessions : WatchTopologyCancel(s)
    \/ \E s \in Sessions : WatchTopologyDeregister(s)
    \/ \E s \in Sessions : WatchTopologyClose(s)

HubSpec == Init /\ [][HubNext]_vars

\* BurstSpec: the join of one member, then a join event that lists
\* BurstMembers members (serf coalesces joins); the callbacks run one after
\* the other and the clients take every update sent to them (a session ends
\* on cancellation only)
BurstNext ==
    \/ /\ gen \in {0, 1}
       /\ MemberChange("join", IF gen = 0 THEN 1 ELSE BurstMembers)
    \/ processEvents
    \/ (\A n \in Notifiers : ntf[n].pc = "idle") /\ handleMember
    \/ \E n \in Notifiers : notifyWatchersBegin(n)
    \/ \E n \in Notifiers : notifyWatchersBuild(n)
    \/ \E n \in Notifiers, ch \in Sessions : notifyWatchersSend(n, ch)
    \/ \E n \in Notifiers : notifyWatchersReturn(n)
    \/ \E s \in Sessions : WatchTopologyBegin(s)
    \/ \E s \in Sessions : WatchTopologySendInitial(s, TRUE)
    \/ \E s \in Sessions : WatchTopologyRegister(s)
    \/ \E s \in Sessions : WatchTopologyRecv(s, TRUE)
    \/ \E s \in Sessions : WatchTopologyCancel(s)
    \/ \E s \in Sessions : WatchTopologyDeregister(s)
    \/ \E s \in Sessions : WatchTopologyClose(s)

BurstSpec == Init /\ [][BurstNext]_vars

----------------------------------------------------------------------------
(* Properties of the live distribution *)

\* the sessions that have got as far as registering their channel
PastInitial == {"register", "loop", "cleanup", "close", "ended"}

\* C8: the first update on a session's stream is the FULL update the session
\* built itself; nothing triggered by a join or leave is sent before it, the
\* channel is registered only after it, and it comes once.
C8_InitialFirst ==
    \A s \in Sessions :
       /\ sent[s].n > 0 =>
             /\ sent[s].first.origin = "initial"
             /\ sent[s].first.UpdateType = "FULL"
             /\ sent[s].first.Topology = sess[s].initial.Topology
       /\ sess[s].pc \in PastInitial => sent[s].n > 0
       /\ s \in watchers => sent[s].n > 0
       /\ sent[s].n > 1 => sent[s].latest.origin = "notify"

\* a session has sent its initial update and then an update of a later
\* membership, while the other session was still about to register
C8_Witness ==
    \E s \in Sessions, o \in Sessions :
       /\ sent[s].n = 2
       /\ sent[s].first.origin = "initial"
       /\ sent[s].latest.origin = "notify"
       /\ sent[s].latest.Topology > sent[s].first.Topology
       /\ sess[o].pc = "register"
       /\ sess[o].initial.Topology < gen

\* notifier n takes channel ch in its loop
SendStep(n, ch) ==
    /\ ntf[n].pc = "range"
    /\ ch \in ntf[n].todo
    /\ ntf'[n].pc = "range"
    /\ ch \notin ntf'[n].todo

\* C9: a full channel never holds up the broadcast: in the loop every send
\* can be taken at once, whatever the channels hold, and the return after
\* it; a channel with room gets the update; the event loop's steps do not
\* wait for any channel.
C9_NonBlocking ==
    /\ [](\A n \in Notifiers : ntf[n].pc = "range" =>
             /\ \A ch \in ntf[n].todo : ENABLED notifyWatchersSend(n, ch)
             /\ ntf[n].todo = {} => ENABLED notifyWatchersReturn(n))
    /\ [](\A n \in Notifiers :
             /\ ntf[n].pc = "started" => ENABLED notifyWatchersBegin(n)
             /\ ntf[n].pc = "build" => ENABLED notifyWatchersBuild(n))
    /\ [][\A n \in Notifiers, ch \in Sessions :
             (SendStep(n, ch) /\ Len(chan[ch]) < ChanCap) =>
                 /\ chan'[ch] = Append(chan[ch], ntf[n].update)
                 /\ \A o \in Sessions \ {ch} : chan'[o] = chan[o]]_vars
    /\ []((eventCh # <<>> /\ handling.members = 0) => ENABLED processEvents)
    /\ []((handling.members > 0 /\ \E n \in Notifiers : ntf[n].pc = "idle")
             => ENABLED handleMember)

\* a broadcast has ended that found one channel full and put its update
\* into the other one
C9_Witness ==
    \E n \in Notifiers, slow \in Sessions, other \in Sessions :
       /\ ntf[n].pc = "range"
       /\ ntf[n].todo = {}
       /\ ntf[n].dropped = {slow}
       /\ Len(chan[slow]) = ChanCap
       /\ other \in watchers \ {slow}
       /\ chan[other] # <<>>
       /\ chan[other][Len(chan[other])] = ntf[n].update

\* C10: a channel never holds more than ChanCap updates; a send that finds
\* the channel full leaves every channel as it was and the broadcast goes on.
C10_DropOnFull ==
    /\ [](\A s \in Sessions : Len(chan[s]) <= ChanCap)
    /\ [][\A n \in Notifiers, ch \in Sessions :
             (SendStep(n, ch) /\ Len(chan[ch]) >= ChanCap) =>
                 /\ chan' = chan
                 /\ ch \in ntf'[n].dropped]_vars

\* an update of the later membership was dropped on a full channel whose
\* oldest update is of the earlier membership
C10_Witness ==
    \E n \in Notifiers, s \in Sessions :
       /\ s \in ntf[n].dropped
       /\ Len(chan[s]) = ChanCap
       /\ chan[s][1].Topology < ntf[n].update.Topology

\* C11: what a session sends on its stream never goes back to an older
\* membership: each update sent was built from a membership at least as new
\* as that of the update sent before it.
C11_Ordered ==
    [][\A s \in Sessions :
          (sent'[s] # sent[s] /\ sent[s].n > 0) =>
              sent'[s].latest.Topology >= sent[s].latest.Topology]_vars

\* C12: a session that has ended, on cancellation or on a failed send, has
\* its channel out of the registry and closed; a channel is closed in one
\* step, by its own session's deferred function after the removal, stays
\* closed, and no close ever hits a closed channel.
C12_ClosedOnce ==
    /\ [](fault # "close of closed channel")
    /\ [](\A s \in Sessions :
             /\ sess[s].pc = "ended" =>
                   (closed[s] /\ s \notin watchers /\ sess[s].err \in {"nil", "send"})
             /\ closed[s] => sess[s].pc = "ended")
    /\ [][\A s \in Sessions :
             /\ closed[s] => closed'[s]
             /\ (~closed[s] /\ closed'[s]) =>
                   (sess[s].pc = "close" /\ s \notin watchers /\ s \notin watchers')]_vars

\* one session has ended on cancellation and the other on a failed send of
\* an update; both channels are closed and the registry is empty
C12_Witness ==
    \E s \in Sessions, o \in Sessions :
       /\ sess[s].pc = "ended" /\ sess[s].err = "nil"
       /\ sess[o].pc = "ended" /\ sess[o].err = "send"
       /\ closed[s] /\ closed[o]
       /\ watchers = {}
       /\ fault = ""

\* C13: no broadcast sends on a closed channel: a channel that is closed, or
\* about to be, is in no registry and in no broadcast's remaining loop.
C13_NoSendOnClosed ==
    /\ fault # "send on closed channel"
    /\ \A s \in Sessions :
          (closed[s] \/ sess[s].pc = "close") =>
             /\ s \notin watchers
             /\ \A n \in Notifiers : s \notin ntf[n].todo

\* a session was cancelled while a broadcast still had its channel to go:
\* its deferred function waits for the broadcast
C13_Witness ==
    \E n \in Notifiers, s \in Sessions :
       /\ ntf[n].pc = "range"
       /\ s \in ntf[n].todo
       /\ sess[s].pc = "cleanup"
       /\ sess[s].err = "nil"
       /\ ~closed[s]

\* the updates a session or a broadcast holds, has queued or has sent
UpdatesOf(s) ==
    Range(chan[s])
      \cup (IF sent[s].n > 0 THEN {sent[s].first, sent[s].latest} ELSE {})
      \cup (IF sess[s].pc # "idle" THEN {sess[s].initial} ELSE {})

C15_CaughtUp ==
    /\ [][\A n \in Notifiers, ch \in Sessions :
             (SendStep(n, ch) /\ ch \in watchers /\ Len(chan[ch]) < ChanCap) =>
                 /\ Len(chan'[ch]) = Len(chan[ch]) + 1
                 /\ chan'[ch][Len(chan'[ch])] = ntf[n].update
                 /\ ch \notin ntf'[n].dropped]_vars
    /\ [][\A s \in Sessions :
             (sess[s].pc = "loop" /\ sess'[s].pc = "loop" /\ chan'[s] # chan[s]) =>
                 \/ /\ Len(chan'[s]) = Len(chan[s]) + 1
                    /\ SubSeq(chan'[s], 1, Len(chan[s])) = chan[s]
                 \/ /\ chan'[s] = Tail(chan[s])
                    /\ sent'[s].latest = Head(chan[s])]_vars
    /\ [](\A s \in Sessions :
             (sess[s].pc = "loop" /\ chan[s] # <<>>) => ENABLED WatchTopologyRecv(s, TRUE))

\* a session that had an update dropped has since taken updates off its
\* channel, and the broadcast now ending has put its update into it
C15_Witness ==
    \E n \in Notifiers, s \in Sessions :
       /\ s \in missed
       /\ s \in watchers
       /\ sess[s].pc = "loop"
       /\ ntf[n].pc = "range"
       /\ ntf[n].todo = {}
       /\ s \notin ntf[n].dropped
       /\ chan[s] # <<>>
       /\ chan[s][Len(chan[s])] = ntf[n].update
       /\ Len(chan[s]) < ChanCap

\* C16: a session in its loop leaves it only by its own step, on
\* cancellation (err nil) or on a failed send (err send), never in a step
\* that drops an update; a drop changes no session, stream, channel or
\* registry.
C16_DropKeepsSession ==
    /\ [][\A s \in Sessions :
             (sess[s].pc = "loop" /\ sess'[s].pc # "loop") =>
                 /\ sess'[s].pc = "cleanup"
                 /\ sess'[s].err \in {"nil", "send"}
                 /\ sess'[s].err = "nil" => chan' = chan
                 /\ sess'[s].err = "send" =>
                       (chan[s] # <<>> /\ chan'[s] = Tail(chan[s]) /\ sent' = sent)
                 /\ missed' = missed
                 /\ ntf' = ntf]_vars
    /\ [][\A n \in Notifiers, ch \in Sessions :
             (SendStep(n, ch) /\ Len(chan[ch]) >= ChanCap) =>
                 /\ sess' = sess
                 /\ sent' = sent
                 /\ closed' = closed
                 /\ watchers' = watchers
                 /\ chan' = chan]_vars
    /\ [](\A s \in Sessions : sess[s].err \in {"none", "nil", "send"})

\* a session that had an update dropped is still in its loop after every
\* broadcast has ended, has emptied its channel and has sent the update of
\* the last membership
C16_Witness ==
    \E s \in Sessions :
       /\ s \in missed
       /\ sess[s].pc = "loop"
       /\ sess[s].err = "none"
       /\ chan[s] = <<>>
       /\ sent[s].latest = FullUpdate(gen, "notify")
       /\ eventCh = <<>> /\ handling = NoEvent
       /\ \A n \in Notifiers : ntf[n].pc = "idle"

----------------------------------------------------------------------------
(* buildTopology: the services of the members *)

\* Tags of a member: the "services" tag (present or not, its JSON parsing as
\* []ServiceInfo or not, the ServiceInfos it lists) and the two legacy tags
\* ("" for a tag the map does not hold)
NoServicesTag == [present |-> FALSE, valid |-> FALSE, infos |-> <<>>]
ServicesTag(infos) == [present |-> TRUE, valid |-> TRUE, infos |-> infos]
BadServicesTag == [present |-> TRUE, valid |-> FALSE, infos |-> <<>>]

ServiceInfo(name, type, address) == [name |-> name, type |-> type, address |-> address]

\* the tag sets of the members: none (a heimdall-only node), the legacy
\* pair, a services tag whose first service has an address and whose second
\* has none, one whose first service has an address that is no URL host, one
\* whose first service has no address, and one that does not parse
TagSets ==
    { [services |-> NoServicesTag, service_name |-> "", service_type |-> ""],
      [services |-> NoServicesTag, service_name |-> "api", service_type |-> "http"],
      [services |-> ServicesTag(<<ServiceInfo("api", "http", "10.1.0.1:8080"),
                                  ServiceInfo("db", "postgres", "")>>),
       service_name |-> "", service_type |-> ""],
      [services |-> ServicesTag(<<ServiceInfo("db", "postgres", "%"),
                                  ServiceInfo("api", "http", "10.1.0.1:8080")>>),
       service_name |-> "", service_type |-> ""],
      [services |-> ServicesTag(<<ServiceInfo("db", "postgres", ""),
                                  ServiceInfo("api", "http", "10.1.0.2:8080")>>),
       service_name |-> "", service_type |-> ""],
      [services |-> BadServicesTag, service_name |-> "api", service_type |-> "http"] }

\* sm.Addr.String() of the member of a name
AddrOf(name) ==
    CASE name = "heimdall" -> "10.0.0.1"
      [] name = "a" -> "10.0.0.2"
      [] OTHER -> "10.0.0.3"

\* the members serf can report: a name, its address, its status, its tags
Member(name, tags) == [Name |-> name, Addr |-> AddrOf(name), Status |-> "alive", Tags |-> tags]

\* the lists serf.Members() returns: up to two members, no name twice, in
\* any order
MemberLists ==
    {<<>>}
      \cup {<<Member(n, t)>> : n \in Nodes, t \in TagSets}
      \cup {<<Member(nm[1], t), Member(nm[2], u)>> :
               nm \in {x \in Nodes \X Nodes : x[1] # x[2]}, t \in TagSets, u \in TagSets}

\* a plausible bug: the switch has no case for serf.StatusFailed
mapStatusWithoutFailed(status) ==
    CASE status = "alive" -> "HEALTHY"
      [] status \in {"leaving", "left"} -> "UNHEALTHY"
      [] OTHER -> "UNKNOWN"

\* mapStatus
mapStatus(status) ==
    CASE status = "alive" -> "HEALTHY"
      [] status \in {"leaving", "left"} -> "UNHEALTHY"
      [] status = "failed" -> "UNHEALTHY"
      [] OTHER -> "UNKNOWN"

\* a plausible bug: the legacy branch is an "if" of its own, not the "else"
\* of the services tag, so a member with both formats adds both
ServicesOfBoth(member) ==
    (IF member.Tags.services.present /\ member.Tags.services.valid
     THEN [i \in DOMAIN member.Tags.services.infos |->
              LET info == member.Tags.services.infos[i]
              IN  [Name |-> info.name, Type |-> info.type, Address |-> info.address,
                   NodeName |-> member.Name, Status |-> mapStatus(member.Status)]]
     ELSE <<>>)
    \o (IF member.Tags.service_type # "" /\ ~(member.Tags.services.present /\ ~member.Tags.services.valid)
        THEN <<[Name |-> member.Tags.service_name, Type |-> member.Tags.service_type,
                Address |-> member.Addr, NodeName |-> member.Name,
                Status |-> mapStatus(member.Status)]>>
        ELSE <<>>)

\* a plausible bug: the legacy branch reads the service_type tag for the name
ServicesOfTypeAsName(member) ==
    IF member.Tags.services.present
    THEN IF ~member.Tags.services.valid THEN <<>>
         ELSE [i \in DOMAIN member.Tags.services.infos |->
                  LET info == member.Tags.services.infos[i]
                  IN  [Name |-> info.name, Type |-> info.type, Address |-> info.address,
                       NodeName |-> member.Name, Status |-> mapStatus(member.Status)]]
    ELSE IF member.Tags.service_type # ""
    THEN <<[Name |-> member.Tags.service_type, Type |-> member.Tags.service_type,
            Address |-> member.Addr, NodeName |-> member.Name,
            Status |-> mapStatus(member.Status)]>>
    ELSE <<>>

\* the body of the loop over members in buildTopology: the services one
\* member adds
ServicesOf(member) ==
    IF member.Tags.services.present
    THEN IF ~member.Tags.services.valid THEN <<>>
         ELSE [i \in DOMAIN member.Tags.services.infos |->
                  LET info == member.Tags.services.infos[i]
                  IN  [Name |-> info.name, Type |-> info.type, Address |-> info.address,
                       NodeName |-> member.Name, Status |-> mapStatus(member.Status)]]
    ELSE IF member.Tags.service_type # ""
    THEN <<[Name |-> member.Tags.service_name, Type |-> member.Tags.service_type,
            Address |-> member.Addr, NodeName |-> member.Name,
            Status |-> mapStatus(member.Status)]>>
    ELSE <<>>

\* a plausible bug: a services tag that does not parse ends the loop
\* ("break" where the code has "continue")
RECURSIVE AppendServicesUntilBad(_, _, _)
AppendServicesUntilBad(ms, i, services) ==
    IF i > Len(ms) THEN services
    ELSE IF ms[i].Tags.services.present /\ ~ms[i].Tags.services.valid THEN services
    ELSE AppendServicesUntilBad(ms, i + 1, services \o ServicesOf(ms[i]))

\* the loop over members in buildTopology, from member i on
RECURSIVE AppendServices(_, _, _)
AppendServices(ms, i, services) ==
    IF i > Len(ms) THEN services
    ELSE AppendServices(ms, i + 1, services \o ServicesOf(ms[i]))

\* buildTopology (the Timestamp is left out)
buildTopology(ms) == [Services |-> AppendServices(ms, 1, <<>>)]

----------------------------------------------------------------------------
(* GetServiceResources *)

\* a plausible bug: a request for an unknown name is given the first service
findServiceOrFirst(services, name) ==
    IF \E i \in DOMAIN services : services[i].Name = name
    THEN CHOOSE i \in DOMAIN services :
            /\ services[i].Name = name
            /\ \A j \in 1..(i - 1) : services[j].Name # name
    ELSE IF services # <<>> THEN 1 ELSE 0

\* the loop that looks for the service: the index of the first Service of
\* that name, 0 when there is none (targetService == nil)
findService(services, name) ==
    IF \E i \in DOMAIN services : services[i].Name = name
    THEN CHOOSE i \in DOMAIN services :
            /\ services[i].Name = name
            /\ \A j \in 1..(i - 1) : services[j].Name # name
    ELSE 0

\* a plausible bug: the loop has no break, the last Service of the node wins
findAddressLast(services, node) ==
    IF \E i \in DOMAIN services : services[i].NodeName = node
    THEN services[CHOOSE i \in DOMAIN services :
                     /\ services[i].NodeName = node
                     /\ \A j \in (i + 1)..Len(services) : services[j].NodeName # node].Address
    ELSE ""

\* the loop that looks for the entry node's address: the Address of the
\* first Service hosted on the node, "" when there is none
findAddress(services, node) ==
    IF \E i \in DOMAIN services : services[i].NodeName = node
    THEN services[CHOOSE i \in DOMAIN services :
                     /\ services[i].NodeName = node
                     /\ \A j \in 1..(i - 1) : services[j].NodeName # node].Address
    ELSE ""

\* the node FindPath is asked to start from
PathSource(cfg) == "heimdall"

\* http.NewRequestWithContext parses the URL "http://<addr>/meta..."; an
\* address with a "%" that starts no escape is refused
ParsesAsHost(addr) == addr # "%"

\* what the forwarded call comes to: a transport failure, a status other
\* than 200, a body that does not decode, or a decoded body
HTTPOutcomes == {"transport", "status", "body", "ok"}

\* a plausible bug: the status is not looked at, the body of any answer that
\* arrived is taken for the response
CodeOfOutcomeAnyStatus(http) ==
    CASE http = "transport" -> "Unavailable"
      [] http = "body" -> "Internal"
      [] OTHER -> "OK"

\* the code each outcome is answered with: Do's error, a StatusCode other
\* than http.StatusOK, Decode's error, none
CodeOfOutcome(http) ==
    CASE http = "transport" -> "Unavailable"
      [] http = "status" -> "Internal"
      [] http = "body" -> "Internal"
      [] OTHER -> "OK"

\* a plausible bug: a call that fails in transport is made a second time
DefaultClientDoRetry(http) ==
    [calls |-> IF http = "transport" THEN 2 ELSE 1, code |-> CodeOfOutcome(http)]

\* http.DefaultClient.Do and the handling of what it returns: one call, and
\* the code of the answer
DefaultClientDo(http) == [calls |-> 1, code |-> CodeOfOutcome(http)]

\* GetServiceResources, with the outcome of the call it forwards
GetServiceResources(cfg, ms, g, serviceName, http) ==
    LET topology == buildTopology(ms)
        t == findService(topology.Services, serviceName)
        asked == [NoRoute EXCEPT !.called = TRUE, !.serviceName = serviceName]
    IN  IF t = 0 THEN [asked EXCEPT !.code = "NotFound"]
        ELSE
        LET host == topology.Services[t].NodeName
            path == FindPath(g, PathSource(cfg), host)
            routed == [asked EXCEPT !.findPath = 1, !.source = PathSource(cfg),
                                    !.host = host, !.path = path]
        IN  IF path.isnil THEN [routed EXCEPT !.code = "Unavailable"]
            ELSE IF ~(Len(path.elems) > 1) THEN [routed EXCEPT !.code = "Internal"]
            ELSE
            LET entryNode == path.elems[2]
                entryAddr == findAddress(topology.Services, entryNode)
                entered == [routed EXCEPT !.entryNode = entryNode, !.entryAddr = entryAddr]
            IN  IF entryAddr = "" THEN [entered EXCEPT !.code = "Internal"]
                ELSE IF ~ParsesAsHost(entryAddr) THEN [entered EXCEPT !.code = "Internal"]
                ELSE [entered EXCEPT
                        !.calls = DefaultClientDo(http).calls,
                        !.http = http,
                        !.request = [url |-> entryAddr, serviceName |-> serviceName,
                                     path |-> Tail(path.elems), currentHop |-> 0],
                        !.code = DefaultClientDo(http).code]

----------------------------------------------------------------------------
(* RouteSpec: a mesh of any accepted name, its members, its graph, and the *)
(* GetServiceResources calls made on it                                    *)

\* the node names a mesh is made with: main's, a service node's, and none
NodeNames == {"heimdall", "a", ""}

\* NewMesh: a configuration without a node name is refused; the mesh starts
\* with no member seen and an empty graph
NewMesh(cfg) ==
    /\ members = <<>> /\ edges = NewGraph /\ ~route.called
    /\ config' = IF cfg.NodeName = "" THEN config ELSE cfg
    /\ UNCHANGED <<members, route, built>>
    /\ UNCHANGED <<graphVars, lockVars, hubVars, meshVars>>

\* a member joins: serf.Members() lists it, before or after the others
memberJoins(member, first) ==
    /\ ~route.called
    /\ LET ms == IF first THEN <<member>> \o members ELSE Append(members, member)
       IN  /\ ms \in MemberLists
           /\ members' = ms
    /\ UNCHANGED <<config, route, built>>
    /\ UNCHANGED <<graphVars, lockVars, hubVars, meshVars>>

\* a member leaves: serf.Members() lists it no more
memberLeaves(i) ==
    /\ ~route.called
    /\ i \in DOMAIN members
    /\ members' = SubSeq(members, 1, i - 1) \o SubSeq(members, i + 1, Len(members))
    /\ UNCHANGED <<config, route, built>>
    /\ UNCHANGED <<graphVars, lockVars, hubVars, meshVars>>

\* a "topology" user event reaches Graph.Update
handleTopologyEvent(eventData) ==
    /\ ~route.called
    /\ edges' = Update(edges, eventData)
    /\ UNCHANGED <<config, members, route, built>>
    /\ UNCHANGED <<nUpdates, last, ret, lockVars, hubVars, meshVars>>

\* a GetServiceResources call is made and answered
DoGetServiceResources(serviceName, http) ==
    /\ ~route.called
    /\ route' = GetServiceResources(config, members, edges, serviceName, http)
    /\ UNCHANGED <<config, members, built>>
    /\ UNCHANGED <<graphVars, lockVars, hubVars, meshVars>>

\* the answer has gone to the client
Answered ==
    /\ route.called
    /\ route' = NoRoute
    /\ UNCHANGED <<config, members, built>>
    /\ UNCHANGED <<graphVars, lockVars, hubVars, meshVars>>

\* the names asked for: the two services members can host, and one nobody hosts
ServiceNames == {"api", "db", "cache"}

RouteNext ==
    \/ \E name \in NodeNames : NewMesh([NodeName |-> name])
    \/ \E name \in Nodes, tags \in TagSets, first \in BOOLEAN :
          memberJoins(Member(name, tags), first)
    \/ \E i \in 1..2 : memberLeaves(i)
    \/ \E d \in ConcurrentPayloads : handleTopologyEvent(d)
    \/ \E serviceName \in ServiceNames, http \in HTTPOutcomes :
          DoGetServiceResources(serviceName, http)
    \/ Answered

RouteSpec == Init /\ [][RouteNext]_vars

----------------------------------------------------------------------------
(* Properties of GetServiceResources, checked under RouteSpec *)

\* the services of the current members, and those of a name or on a node
Topo == buildTopology(members).Services
Named(name) == {i \in DOMAIN Topo : Topo[i].Name = name}
HostedOn(node) == {i \in DOMAIN Topo : Topo[i].NodeName = node}
First(S) == CHOOSE i \in S : \A j \in S : i <= j

\* C17: a request for a name no Service of the topology has is answered
\* NotFound, with no FindPath call and no outbound call made; NotFound is
\* the answer to nothing else.
C17_NotFound ==
    route.called =>
       /\ Named(route.serviceName) = {} =>
             (route.code = "NotFound" /\ route.findPath = 0 /\ route.calls = 0)
       /\ route.code = "NotFound" => Named(route.serviceName) = {}

\* an unknown name is asked for while two members host services and the
\* graph has a route from the observer to one of them
C17_Witness ==
    /\ route.called
    /\ route.code = "NotFound"
    /\ Len(members) = 2
    /\ \E i \in DOMAIN Topo : ~FindPath(edges, config.NodeName, Topo[i].NodeName).isnil
                              /\ Topo[i].NodeName # config.NodeName

\* C18: a request for an existing service whose host has no path from the
\* observer's node in the graph is answered Unavailable, with no outbound
\* call made.
C18_NoRoute ==
    (route.called /\ Named(route.serviceName) # {}) =>
       LET host == Topo[First(Named(route.serviceName))].NodeName
       IN  FindPath(edges, config.NodeName, host).isnil =>
              (route.code = "Unavailable" /\ route.calls = 0)

\* C19: a request for a service hosted on the observer's own node is
\* answered Internal, with no outbound call made.
C19_SelfHosted ==
    (route.called /\ Named(route.serviceName) # {}) =>
       LET host == Topo[First(Named(route.serviceName))].NodeName
       IN  host = config.NodeName =>
              (route.code = "Internal" /\ route.calls = 0)

\* C20: when the computed path has two nodes or more, the entry node is its
\* second; with no Service hosted on it, or with the first one hosted on it
\* having no address, the answer is Internal and no outbound call is made;
\* otherwise the entry address is that first Service's, and a call made
\* goes to it.
C20_EntryAddress ==
    (route.called /\ route.findPath = 1 /\ Len(route.path.elems) >= 2) =>
       LET entry == route.path.elems[2]
       IN  /\ route.entryNode = entry
           /\ HostedOn(entry) = {} =>
                 (route.code = "Internal" /\ route.calls = 0)
           /\ HostedOn(entry) # {} =>
                 LET first == Topo[First(HostedOn(entry))]
                 IN  /\ route.entryAddr = first.Address
                     /\ first.Address = "" =>
                           (route.code = "Internal" /\ route.calls = 0)
                     /\ route.calls = 1 => route.request.url = first.Address

\* the path has three nodes, the entry node hosts two services with
\* different addresses, and the call has gone to the address of the first
C20_Witness ==
    /\ route.called
    /\ route.calls = 1
    /\ Len(route.path.elems) = 3
    /\ Cardinality(HostedOn(route.entryNode)) = 2
    /\ \E i \in HostedOn(route.entryNode) : Topo[i].Address # route.entryAddr
    /\ route.request.url = Topo[First(HostedOn(route.entryNode))].Address

\* C21: the forwarded request carries the name asked for, the computed path
\* with the observer's own name removed (the path is the observer's name
\* followed by the request's path, which starts with the entry node, ends
\* with the node hosting the target and does not hold the observer's name)
\* and hop counter 0.
C21_Forwarded ==
    (route.called /\ route.calls = 1) =>
       LET host == Topo[First(Named(route.serviceName))].NodeName
           rest == route.request.path
       IN  /\ route.request.serviceName = route.serviceName
           /\ route.request.currentHop = 0
           /\ route.path.elems = <<config.NodeName>> \o rest
           /\ rest # <<>>
           /\ rest[1] = route.entryNode
           /\ rest[Len(rest)] = host
           /\ config.NodeName \notin Range(rest)

\* the request has found its service, a path of two nodes or more, and a
\* non-empty entry address
Resolved ==
    /\ route.findPath = 1
    /\ Len(route.path.elems) >= 2
    /\ route.entryAddr # ""

\* C22 as stated: a request makes at most one outbound call, and exactly
\* one when the service is found, a path of two nodes or more exists and the
\* entry address is resolved; when the call fails the request fails.
C22_OneCall ==
    route.called =>
       /\ route.calls <= 1
       /\ Resolved => route.calls = 1
       /\ (route.calls = 1 /\ route.http # "ok") => route.code # "OK"

\* C22 amended: a request makes at most one outbound call; it makes one
\* exactly when the service is found, a path of two nodes or more exists,
\* the entry address is not empty and the URL made of it parses (with an
\* address that is no URL host the answer is Internal and no call is made);
\* when the call fails the request fails, and one call is all it has made.
C22_OneCallParsed ==
    route.called =>
       /\ route.calls <= 1
       /\ route.calls = 1 <=> (Resolved /\ route.entryAddr # "%")
       /\ (Resolved /\ route.entryAddr = "%") => route.code = "Internal"
       /\ (route.calls = 1 /\ route.http # "ok") => route.code # "OK"

\* the one call has failed in transport although the graph has a second
\* route to the host, through another entry node that has an address
C22_Witness ==
    /\ route.called
    /\ route.calls = 1
    /\ route.http = "transport"
    /\ route.code = "Unavailable"
    /\ Len(route.path.elems) = 2
    /\ \E other \in Nodes \ Range(route.path.elems) :
          /\ HasEdge(edges, route.path.elems[1], other)
          /\ HasEdge(edges, other, route.host)
          /\ HostedOn(other) # {}

\* C23: a transport failure of the forwarded call gives Unavailable, a
\* status other than success gives Internal, a success status with a body
\* that does not parse gives Internal, a success status with a body that
\* parses gives a successful response; a request is successful in no other
\* case.
C23_OutcomeMapping ==
    route.called =>
       /\ route.calls = 1 =>
             /\ route.http \in HTTPOutcomes
             /\ route.http = "transport" => route.code = "Unavailable"
             /\ route.http = "status" => route.code = "Internal"
             /\ route.http = "body" => route.code = "Internal"
             /\ route.http = "ok" => route.code = "OK"
       /\ route.code = "OK" => (route.calls = 1 /\ route.http = "ok")
       /\ route.code \in {"NotFound", "Unavailable", "Internal", "OK"}

\* the remote has answered the forwarded call with a status other than
\* success, and the request has failed with Internal
C23_Witness ==
    /\ route.called
    /\ route.calls = 1
    /\ route.http = "status"
    /\ route.code = "Internal"

----------------------------------------------------------------------------
(* BuildSpec: the members serf reports, with their statuses and tags, and  *)
(* the buildTopology calls made over them                                  *)

\* serf.MemberStatus.String()
Statuses == {"none", "alive", "leaving", "left", "failed"}

\* the tag sets of the members here: none, the legacy pair, a services tag
\* that lists two services, the same next to a legacy pair, a services tag
\* that lists nothing, one that does not parse next to a legacy pair, and
\* one legacy tag without the other
BuildTagSets ==
    { [services |-> NoServicesTag, service_name |-> "", service_type |-> ""],
      [services |-> NoServicesTag, service_name |-> "api", service_type |-> "http"],
      [services |-> ServicesTag(<<ServiceInfo("api", "http", "10.1.0.1:8080"),
                                  ServiceInfo("db", "postgres", "")>>),
       service_name |-> "", service_type |-> ""],
      [services |-> BadServicesTag, service_name |-> "api", service_type |-> "http"],
      [services |-> ServicesTag(<<ServiceInfo("api", "http", "10.1.0.1:8080"),
                                  ServiceInfo("db", "postgres", "")>>),
       service_name |-> "web", service_type |-> "http"],
      [services |-> ServicesTag(<<>>), service_name |-> "web", service_type |-> "http"],
      [services |-> NoServicesTag, service_name |-> "", service_type |-> "http"],
      [services |-> NoServicesTag, service_name |-> "api", service_type |-> ""] }

\* the lists serf.Members() returns here: up to two members of any status,
\* no name twice, in any order
SerfMemberLists ==
    LET Ms == {[Member(n, t) EXCEPT !.Status = st] :
                  n \in Nodes, t \in BuildTagSets, st \in Statuses}
    IN  {<<>>} \cup {<<m>> : m \in Ms}
          \cup {<<mn[1], mn[2]>> : mn \in {x \in Ms \X Ms : x[1].Name # x[2].Name}}

\* a member joins: serf.Members() lists it alive, before or after the others
serfMemberJoin(member, first) ==
    /\ ~built.built
    /\ LET ms == IF first THEN <<member>> \o members ELSE Append(members, member)
       IN  /\ ms \in SerfMemberLists
           /\ members' = ms
    /\ UNCHANGED <<config, route, built>>
    /\ UNCHANGED <<graphVars, lockVars, hubVars, meshVars>>

\* serf sees a member leaving, gone or failing, or back alive
serfMemberStatus(i, status) ==
    /\ ~built.built
    /\ i \in DOMAIN members
    /\ members[i].Status # status
    /\ members' = [members EXCEPT ![i].Status = status]
    /\ UNCHANGED <<config, route, built>>
    /\ UNCHANGED <<graphVars, lockVars, hubVars, meshVars>>

\* the times time.Now().UnixMilli() gives
Times == {1, 2}

\* serf.Members() ranges over a map: a call lists the members in this order
\* or in the other
Listed(ms, reversed) ==
    IF reversed THEN [i \in DOMAIN ms |-> ms[Len(ms) + 1 - i]] ELSE ms

\* a plausible bug: the build drops the members that have left from the list
DoBuildTopologyReaping(now, reversed) ==
    /\ built' = [built |-> TRUE, again |-> built.built,
                 Services |-> buildTopology(Listed(members, reversed)).Services,
                 Timestamp |-> now]
    /\ members' = SelectSeq(members, LAMBDA m : m.Status # "left")
    /\ UNCHANGED <<config, route>>
    /\ UNCHANGED <<graphVars, lockVars, hubVars, meshVars>>

\* a buildTopology call, at the time the clock gives
DoBuildTopology(now, reversed) ==
    /\ built' = [built |-> TRUE, again |-> built.built,
                 Services |-> buildTopology(Listed(members, reversed)).Services,
                 Timestamp |-> now]
    /\ UNCHANGED <<config, members, route>>
    /\ UNCHANGED <<graphVars, lockVars, hubVars, meshVars>>

\* the caller lets go of the Topology it was given
Dropped ==
    /\ built.built
    /\ built' = NoTopology
    /\ UNCHANGED <<config, members, route>>
    /\ UNCHANGED <<graphVars, lockVars, hubVars, meshVars>>

\* the topology event of this specification: heimdall announces a
BuildPayloads == {d \in ConcurrentPayloads : d.kind = "object" /\ d.n = "heimdall" /\ d.nb = <<"a">>}

\* the session of this specification
Watcher == CHOOSE s \in Sessions : TRUE

BuildNext ==
    \/ \E name \in Nodes, tags \in BuildTagSets, first \in BOOLEAN :
          serfMemberJoin(Member(name, tags), first)
    \/ \E i \in DOMAIN members, status \in Statuses : serfMemberStatus(i, status)
    \/ \E i \in DOMAIN members : ~built.built /\ memberLeaves(i)
    \/ \E d \in BuildPayloads : ~built.built /\ handleTopologyEvent(d)
    \/ ~built.built /\ WatchTopologyBegin(Watcher)
    \/ ~built.built /\ WatchTopologySendInitial(Watcher, TRUE)
    \/ ~built.built /\ WatchTopologyRegister(Watcher)
    \/ ~built.built /\ WatchTopologyCancel(Watcher)
    \/ ~built.built /\ WatchTopologyDeregister(Watcher)
    \/ ~built.built /\ WatchTopologyClose(Watcher)
    \/ \E now \in Times, reversed \in BOOLEAN : DoBuildTopology(now, reversed)
    \/ Dropped

BuildSpec == Init /\ [][BuildNext]_vars

----------------------------------------------------------------------------
(* Properties of buildTopology, checked under BuildSpec *)

\* the Services of a Topology that a node hosts, in the Topology's order
ByHost(services, node) == SelectSeq(services, LAMBDA svc : svc.NodeName = node)

\* the ServiceStatus of a liveness
Liveness(status) ==
    IF status = "alive" THEN "HEALTHY"
    ELSE IF status \in {"leaving", "left", "failed"} THEN "UNHEALTHY"
    ELSE "UNKNOWN"

\* C24: a node whose services tag parses and lists k services has exactly k
\* Services in the Topology, in the order of the tag, each with the name,
\* type and address listed, the node as its host and the status of the
\* node's liveness; the node's legacy tags add nothing.
C24_Structured ==
    built.built =>
       \A i \in DOMAIN members :
          LET m == members[i]
              tag == m.Tags.services
              got == ByHost(built.Services, m.Name)
          IN  (tag.present /\ tag.valid) =>
                 /\ Len(got) = Len(tag.infos)
                 /\ \A j \in DOMAIN got :
                       /\ got[j].Name = tag.infos[j].name
                       /\ got[j].Type = tag.infos[j].type
                       /\ got[j].Address = tag.infos[j].address
                       /\ got[j].NodeName = m.Name
                       /\ got[j].Status = Liveness(m.Status)
                       /\ got[j].Address # m.Addr

\* a failed node with a services tag of two services next to a legacy pair
\* has its two Services in a Topology that another node has a Service in
C24_Witness ==
    /\ built.built
    /\ Len(members) = 2
    /\ \E i \in DOMAIN members :
          /\ members[i].Tags.services.valid
          /\ Len(members[i].Tags.services.infos) = 2
          /\ members[i].Tags.service_type # ""
          /\ members[i].Status = "failed"
          /\ Len(ByHost(built.Services, members[i].Name)) = 2
          /\ Len(built.Services) = 3

\* C25: a node whose services tag does not parse has no Service in the
\* Topology, legacy tags or not, and every other node has all of its
\* Services there: the ones its services tag lists, or the one of its
\* legacy pair.
C25_ParseFailureSkipsNode ==
    built.built =>
       \A i \in DOMAIN members :
          (members[i].Tags.services.present /\ ~members[i].Tags.services.valid) =>
             /\ ByHost(built.Services, members[i].Name) = <<>>
             /\ \A j \in DOMAIN members \ {i} :
                   LET m == members[j]
                       got == ByHost(built.Services, m.Name)
                   IN  /\ (m.Tags.services.present /\ m.Tags.services.valid) =>
                             /\ Len(got) = Len(m.Tags.services.infos)
                             /\ \A k \in DOMAIN got : got[k].Name = m.Tags.services.infos[k].name
                       /\ (~m.Tags.services.present /\ m.Tags.service_name # ""
                              /\ m.Tags.service_type # "") =>
                             /\ Len(got) = 1
                             /\ got[1].Name = m.Tags.service_name

\* the first member has a services tag that does not parse and the legacy
\* pair, the second lists two services, and the Topology holds just those two
C25_Witness ==
    /\ built.built
    /\ Len(members) = 2
    /\ members[1].Tags.services.present
    /\ ~members[1].Tags.services.valid
    /\ members[1].Tags.service_type # ""
    /\ members[2].Tags.services.valid
    /\ Len(built.Services) = 2
    /\ \A k \in DOMAIN built.Services : built.Services[k].NodeName = members[2].Name

\* C26: a node without the services tag that has the legacy pair,
\* service_name and service_type, has exactly one Service in the Topology,
\* with those two values as its name and type and the node as its host.
C26_LegacyPair ==
    built.built =>
       \A i \in DOMAIN members :
          LET m == members[i]
              got == ByHost(built.Services, m.Name)
          IN  (~m.Tags.services.present /\ m.Tags.service_name # "" /\ m.Tags.service_type # "") =>
                 /\ Len(got) = 1
                 /\ got[1].Name = m.Tags.service_name
                 /\ got[1].Type = m.Tags.service_type
                 /\ got[1].NodeName = m.Name

\* a node with the pair api/http and no services tag has its one Service,
\* api of type http, next to the Services of a node with a services tag
C26_Witness ==
    /\ built.built
    /\ Len(members) = 2
    /\ \E i \in DOMAIN members :
          /\ ~members[i].Tags.services.present
          /\ members[i].Tags.service_name = "api"
          /\ members[i].Tags.service_type = "http"
          /\ \E k \in DOMAIN built.Services :
                /\ built.Services[k].NodeName = members[i].Name
                /\ built.Services[k].Name = "api"
                /\ built.Services[k].Type = "http"
    /\ Len(built.Services) = 3

\* C27: a node without the services tag has a Service in the Topology only
\* when both service_name and service_type are set: without the services
\* tag and without one of the two, it has none.
C27_NeitherFormat ==
    built.built =>
       \A i \in DOMAIN members :
          LET m == members[i]
          IN  (~m.Tags.services.present
                 /\ (m.Tags.service_name = "" \/ m.Tags.service_type = "")) =>
                 ByHost(built.Services, m.Name) = <<>>

\* the member of a name in the list serf reports
MemberNamed(name) == members[CHOOSE i \in DOMAIN members : members[i].Name = name]

\* C28: the status of every Service comes from the liveness of its hosting
\* node: HEALTHY for alive, UNHEALTHY for leaving, left and failed, UNKNOWN
\* for every other status string.
C28_StatusMapping ==
    /\ \A st \in Statuses \cup {"unknown", ""} :
          /\ st = "alive" => mapStatus(st) = "HEALTHY"
          /\ st \in {"leaving", "left", "failed"} => mapStatus(st) = "UNHEALTHY"
          /\ st \notin {"alive", "leaving", "left", "failed"} => mapStatus(st) = "UNKNOWN"
    /\ built.built =>
          \A k \in DOMAIN built.Services :
             LET st == MemberNamed(built.Services[k].NodeName).Status
                 status == built.Services[k].Status
             IN  /\ status = "HEALTHY" <=> st = "alive"
                 /\ status = "UNHEALTHY" <=> st \in {"leaving", "left", "failed"}
                 /\ status = "UNKNOWN" <=> st \notin {"alive", "leaving", "left", "failed"}

\* the Topology holds the Service of a failed node, unhealthy, and the
\* Service of a node of status none, unknown
C28_Witness ==
    /\ built.built
    /\ \E k, l \in DOMAIN built.Services :
          /\ MemberNamed(built.Services[k].NodeName).Status = "failed"
          /\ built.Services[k].Status = "UNHEALTHY"
          /\ MemberNamed(built.Services[l].NodeName).Status = "none"
          /\ built.Services[l].Status = "UNKNOWN"

\* C29: a buildTopology call that follows another with no membership
\* change between the two returns the same Services (as many, with the
\* same names, types, addresses, hosts and statuses), whatever its time and
\* the order serf lists the members in; no call changes the membership, the graph or the registry of subscribers.
C29_BuildIsPure ==
    [][built'.built =>
          /\ members' = members
          /\ edges' = edges
          /\ watchers' = watchers
          /\ built.built =>
                /\ Len(built'.Services) = Len(built.Services)
                /\ Range(built'.Services) = Range(built.Services)]_vars

\* a second Topology has been built, at another time, of two members
\* that host Services, listed last first, while a subscriber is registered
\* and the graph has edges
C29_Witness ==
    /\ built.built
    /\ built.again
    /\ built.Timestamp = 2
    /\ Len(members) = 2
    /\ Len(built.Services) >= 2
    /\ built.Services[1].NodeName = members[2].Name
    /\ built.Services[Len(built.Services)].NodeName = members[1].Name
    /\ watchers # {}
    /\ edges # NewGraph

\* C30: no two Services of a built Topology have the same name, whatever
\* the tags of the members are.
C30_UniqueNames ==
    built.built =>
       \A k, l \in DOMAIN built.Services :
          built.Services[k].Name = built.Services[l].Name => k = l

----------------------------------------------------------------------------
(* More properties of the Graph, checked under Spec *)

\* C37: a path FindPath(from, to) returns starts with from, ends with to,
\* goes from each of its nodes to the next over a recorded edge in that
\* direction, and holds no node twice.
C37_PathWellFormed ==
    (last.op = "FindPath" /\ ~ret.isnil /\ ret.elems # <<>>) =>
        LET p == ret.elems
        IN  /\ p[1] = last.from
            /\ p[Len(p)] = last.to
            /\ \A i \in 1..(Len(p) - 1) :
                  /\ p[i] \in DOMAIN edges
                  /\ \E j \in DOMAIN edges[p[i]] : edges[p[i]][j] = p[i + 1]
            /\ \A i, j \in DOMAIN p : p[i] = p[j] => i = j

\* a path of three nodes over edges of which one has no reverse edge
\* recorded
C37_Witness ==
    /\ last.op = "FindPath"
    /\ ~ret.isnil
    /\ Len(ret.elems) = 3
    /\ \E i \in 1..2 : ~HasEdge(edges, ret.elems[i + 1], ret.elems[i])

\* C38: in every graph Update calls lead to, FindPath(a, b) returns a path
\* exactly when FindPath(b, a) does, and the two paths are of the same
\* length.
C38_SymmetricReach ==
    \A a \in Nodes, b \in Nodes :
       LET there == FindPath(edges, a, b)
           back == FindPath(edges, b, a)
       IN  /\ there.isnil <=> back.isnil
           /\ Len(there.elems) = Len(back.elems)

\* C39: an Update that repeats the Update before it, same node and same
\* neighbors, leaves the map as that one left it: no list changes, and
\* every neighbor's list holds the node as many times as before.
C39_UpdateIdempotent ==
    [][(Parsed(last') /\ last'.again) =>
          /\ edges' = edges
          /\ LET n == last'.data[1].n
             IN  \A b \in Range(last'.data[1].nb) \ {n} :
                    /\ HasEdge(edges', b, n)
                    /\ Cardinality({j \in DOMAIN edges'[b] : edges'[b][j] = n})
                          = Cardinality({j \in DOMAIN edges[b] : edges[b][j] = n})]_vars

\* the same Update, of a node with two neighbors, has been made twice in a
\* row
C39_Witness ==
    /\ Parsed(last)
    /\ last.again
    /\ Cardinality(Range(last.data[1].nb) \ {last.data[1].n}) = 2
    /\ \A b \in Range(last.data[1].nb) : edges[b] = <<last.data[1].n>>

----------------------------------------------------------------------------
(* The source of the routed path, checked under RouteSpec *)

\* C40: the source GetServiceResources passes to FindPath is the node name
\* the mesh was configured with, whatever name NewMesh has accepted.
C40_PathFromOwnName ==
    (route.called /\ route.findPath = 1) => route.source = config.NodeName

----------------------------------------------------------------------------
(* More properties of the live distribution *)

\* C36: the registry holds exactly the channels of the sessions that have
\* registered and have not yet left through their deferred function, every
\* channel in it is open, it is empty once every session has ended, and a
\* session whose initial send failed has registered nothing.
C36_Registry ==
    /\ \A s \in Sessions : s \in watchers <=> sess[s].pc \in {"loop", "cleanup"}
    /\ \A s \in watchers : ~closed[s]
    /\ (\A s \in Sessions : sess[s].pc \in {"ended", "failed"}) => watchers = {}
    /\ \A s \in Sessions :
          sess[s].pc = "failed" => (s \notin watchers /\ ~closed[s] /\ chan[s] = <<>>)

\* one session has ended after being registered, the initial send of the
\* other has failed, and the registry is empty
C36_Witness ==
    /\ watchers = {}
    /\ \E s, t \in Sessions :
          /\ sess[s].pc = "failed"
          /\ sess[t].pc = "ended"
          /\ closed[t]
          /\ sent[t].n > 1

\* no membership event is waiting or being handled and no notifyWatchers
\* call is running
Quiescent ==
    /\ eventCh = <<>>
    /\ handling.members = 0
    /\ \A n \in Notifiers : ntf[n].pc = "idle"

\* C35: a join or leave that follows the build of a session's initial
\* snapshot reaches the session: once the change has been handled and the
\* session, whose channel was never full, has emptied its channel, the
\* session has got an update built after the change, also when the change
\* came between that build and the registration of the channel.
C35_NoLostChange ==
    \A s \in Sessions :
       (/\ Quiescent
        /\ sess[s].pc = "loop"
        /\ chan[s] = <<>>
        /\ s \notin missed
        /\ gen = sess[s].initial.Topology + 1) =>
          sent[s].latest.Topology = gen

\* LagSpec: one registered session; a join event that lists BurstMembers
\* members, then the join of one more member; the callbacks run one after
\* the other, and the session takes updates off its channel whenever it
\* gets to it
LagNext ==
    \/ /\ gen \in {0, 1}
       /\ sess[Watcher].pc = "loop"
       /\ MemberChange("join", IF gen = 0 THEN BurstMembers ELSE 1)
    \/ processEvents
    \/ (\A n \in Notifiers : ntf[n].pc = "idle") /\ handleMember
    \/ \E n \in Notifiers : notifyWatchersBegin(n)
    \/ \E n \in Notifiers : notifyWatchersBuild(n)
    \/ \E n \in Notifiers : notifyWatchersSend(n, Watcher)
    \/ \E n \in Notifiers : notifyWatchersReturn(n)
    \/ WatchTopologyBegin(Watcher)
    \/ WatchTopologySendInitial(Watcher, TRUE)
    \/ WatchTopologyRegister(Watcher)
    \/ WatchTopologyRecv(Watcher, TRUE)

LagSpec == Init /\ [][LagNext]_vars

\* C34: once the membership changes have been handled and a registered
\* session has emptied its channel, the last update the session has
\* received is the one of the final membership, also when its channel was
\* full during some of the broadcasts.
C34_LatestWins ==
    \A s \in Sessions :
       (Quiescent /\ sess[s].pc = "loop" /\ chan[s] = <<>>) =>
          sent[s].latest.Topology = gen

----------------------------------------------------------------------------
(* The life of the Mesh: Start and Stop                                    *)

\* Mesh.Start: serf.Create; on an error m.serf stays nil and the error is
\* returned, else m.serf = s
Start(m, ok) == IF ok THEN [m EXCEPT !.serf = TRUE] ELSE m

\* Start is called once, by the goroutine that made the mesh, while no
\* Stop call is running
MeshStart(ok) ==
    /\ ~mesh.serf
    /\ mesh.stopMu = ""
    /\ mesh' = Start(mesh, ok)
    /\ UNCHANGED <<stop, main, cb>>
    /\ UNCHANGED <<graphVars, lockVars, hubVars, config, members, route, built>>

\* a Stop call has returned without an error
SuccessfulStop == \E d \in StopCallers : stop[d].pc = "returned" /\ stop[d].err = "nil"

\* m.stopMu.Lock()
StopLock(c) ==
    /\ stop[c].pc = "idle"
    /\ mesh.stopMu = ""
    /\ mesh' = [mesh EXCEPT !.stopMu = c]
    /\ stop' = [stop EXCEPT ![c].pc = "locked", ![c].after = SuccessfulStop]
    /\ UNCHANGED <<main, cb>>
    /\ UNCHANGED <<graphVars, lockVars, hubVars, config, members, route, built>>

\* a plausible bug: Stop without the m.stopped test
AlreadyStoppedUntested(m) == FALSE

\* if m.stopped { return nil }
AlreadyStopped(m) == m.stopped

\* the tests of m.stopped and of m.serf == nil, then close(m.stopCh) and
\* m.stopped = true; a return runs the deferred m.stopMu.Unlock()
StopCheck(c) ==
    /\ stop[c].pc = "locked"
    /\ IF AlreadyStopped(mesh)
       THEN /\ mesh' = [mesh EXCEPT !.stopMu = ""]
            /\ stop' = [stop EXCEPT ![c].pc = "returned", ![c].err = "nil",
                                    ![c].started = mesh.serf]
       ELSE IF ~mesh.serf
       THEN /\ mesh' = [mesh EXCEPT !.stopped = TRUE, !.stopMu = ""]
            /\ stop' = [stop EXCEPT ![c].pc = "returned", ![c].err = "nil",
                                    ![c].started = FALSE]
       ELSE /\ mesh' = [mesh EXCEPT !.closes = @ + 1, !.stopped = TRUE]
            /\ stop' = [stop EXCEPT ![c].pc = "leave", ![c].started = TRUE,
                                    ![c].acted = TRUE]
    /\ UNCHANGED <<main, cb>>
    /\ UNCHANGED <<graphVars, lockVars, hubVars, config, members, route, built>>

\* err := m.serf.Leave(); an error is returned, wrapped
StopLeave(c, ok) ==
    /\ stop[c].pc = "leave"
    /\ IF ok
       THEN /\ mesh' = [mesh EXCEPT !.leaves = @ + 1]
            /\ stop' = [stop EXCEPT ![c].pc = "shutdown"]
       ELSE /\ mesh' = [mesh EXCEPT !.leaves = @ + 1, !.stopMu = ""]
            /\ stop' = [stop EXCEPT ![c].pc = "returned", ![c].err = "leave"]
    /\ UNCHANGED <<main, cb>>
    /\ UNCHANGED <<graphVars, lockVars, hubVars, config, members, route, built>>

\* err = m.serf.Shutdown(); an error is returned, wrapped, else nil
StopShutdown(c, ok) ==
    /\ stop[c].pc = "shutdown"
    /\ mesh' = [mesh EXCEPT !.shutdowns = @ + 1, !.stopMu = ""]
    /\ stop' = [stop EXCEPT ![c].pc = "returned",
                            ![c].err = IF ok THEN "nil" ELSE "shutdown"]
    /\ UNCHANGED <<main, cb>>
    /\ UNCHANGED <<graphVars, lockVars, hubVars, config, members, route, built>>

\* StopSpec: a mesh that is started or not, and three goroutines that each
\* call Stop at any time
StopNext ==
    \/ \E ok \in BOOLEAN : MeshStart(ok)
    \/ \E c \in StopCallers : StopLock(c)
    \/ \E c \in StopCallers : StopCheck(c)
    \/ \E c \in StopCallers, ok \in BOOLEAN : StopLeave(c, ok)
    \/ \E c \in StopCallers, ok \in BOOLEAN : StopShutdown(c, ok)

StopSpec == Init /\ [][StopNext]_vars

\* C31: the stop channel is closed, the cluster left and serf shut down at
\* most once however the Stop calls interleave; a Stop call that begins
\* after a Stop has returned without an error returns no error and does
\* none of the three; and a Stop call that finds the mesh never started
\* returns no error.
C31_StopIdempotent ==
    /\ mesh.closes <= 1 /\ mesh.leaves <= 1 /\ mesh.shutdowns <= 1
    /\ \A c \in StopCallers :
          /\ stop[c].after => ~stop[c].acted
          /\ (stop[c].pc = "returned" /\ stop[c].after) => stop[c].err = "nil"
          /\ (stop[c].pc = "returned" /\ ~stop[c].started) => stop[c].err = "nil"

\* a Stop call left the cluster and shut serf down without an error, and a
\* later call has returned too
C31_Witness ==
    \E c, d \in StopCallers :
       /\ c # d
       /\ stop[c].pc = "returned" /\ stop[c].acted /\ stop[c].err = "nil"
       /\ stop[d].pc = "returned" /\ stop[d].after /\ stop[d].started

----------------------------------------------------------------------------
(* runServer: start, serve, and shut down on a signal                      *)

\* a WatchTopology call that has not returned
Open(s) == sess[s].pc \notin {"idle", "failed", "ended"}

\* serf.NewMesh and mesh.Start; on an error runServer returns it, else the
\* API server is started and signal.Notify installed
runServerStart(ok) ==
    /\ main.pc = "init"
    /\ mesh' = Start(mesh, ok)
    /\ main' = [main EXCEPT !.pc = IF ok THEN "serving" ELSE "failed"]
    /\ UNCHANGED <<stop, cb>>
    /\ UNCHANGED <<graphVars, lockVars, hubVars, config, members, route, built>>

\* <-sigCh: os.Interrupt or SIGTERM arrives
runServerSignal ==
    /\ main.pc = "serving"
    /\ main' = [main EXCEPT !.pc = "signalled"]
    /\ UNCHANGED <<mesh, stop, cb>>
    /\ UNCHANGED <<graphVars, lockVars, hubVars, config, members, route, built>>

\* a plausible bug: runServer returns the error of server.Shutdown
AfterShutdownReturnError(timedOut) == IF timedOut THEN "terminated" ELSE "stopping"

\* an error of server.Shutdown is logged, and mesh.Stop() comes next
AfterShutdown(timedOut) == "stopping"

\* server.Shutdown(shutdownCtx) returns: nil, or the context's error when
\* the timeout has passed with calls still open
runServerShutdown(timedOut) ==
    /\ main.pc = "signalled"
    /\ timedOut => \E s \in Sessions : Open(s)
    /\ main' = [pc |-> AfterShutdown(timedOut),
                api |-> IF timedOut THEN "timeout" ELSE "down"]
    /\ UNCHANGED <<mesh, stop, cb>>
    /\ UNCHANGED <<graphVars, lockVars, hubVars, config, members, route, built>>

\* the "Server stopped successfully" line and return nil, once mesh.Stop()
\* has returned
runServerReturn ==
    /\ main.pc = "stopping"
    /\ stop["main"].pc = "returned"
    /\ main' = [main EXCEPT !.pc = "terminated"]
    /\ UNCHANGED <<mesh, stop, cb>>
    /\ UNCHANGED <<graphVars, lockVars, hubVars, config, members, route, built>>

\* the process runs: its handlers serve WatchTopology calls
Running == main.pc \in {"serving", "signalled", "stopping"}

\* ServerSpec: runServer from its start to its return, and the sessions the
\* API server serves meanwhile; new calls arrive until Shutdown has
\* returned, open ones go on until the process ends
ServerNext ==
    \/ \E ok \in BOOLEAN : runServerStart(ok)
    \/ runServerSignal
    \/ \E timedOut \in BOOLEAN : runServerShutdown(timedOut)
    \/ main.pc = "stopping" /\ StopLock("main")
    \/ StopCheck("main")
    \/ \E ok \in BOOLEAN : StopLeave("main", ok)
    \/ \E ok \in BOOLEAN : StopShutdown("main", ok)
    \/ runServerReturn
    \/ \E s \in Sessions : main.api = "up" /\ Running /\ WatchTopologyBegin(s)
    \/ \E s \in Sessions, ok \in BOOLEAN : Running /\ WatchTopologySendInitial(s, ok)
    \/ \E s \in Sessions : Running /\ WatchTopologyRegister(s)
    \/ \E s \in Sessions : Running /\ WatchTopologyCancel(s)
    \/ \E s \in Sessions : Running /\ WatchTopologyDeregister(s)
    \/ \E s \in Sessions : Running /\ WatchTopologyClose(s)

ServerSpec == Init /\ [][ServerNext]_vars

----------------------------------------------------------------------------
(* The callbacks of the Mesh and the events that run them                  *)

\* the functions a caller may register
Funcs == {"f", "g"}

\* registrations per callback slice
MaxCallbacks == 2

\* OnJoin: m.joinCallbacks = append(m.joinCallbacks, fn) under m.mu.Lock()
OnJoin(fn) ==
    /\ Len(cb.join) < MaxCallbacks
    /\ cb' = [cb EXCEPT !.join = Append(@, fn)]
    /\ UNCHANGED <<mesh, stop, main>>
    /\ UNCHANGED <<graphVars, lockVars, hubVars, config, members, route, built>>

\* OnLeave: m.leaveCallbacks = append(m.leaveCallbacks, fn) under m.mu.Lock()
OnLeave(fn) ==
    /\ Len(cb.leave) < MaxCallbacks
    /\ cb' = [cb EXCEPT !.leave = Append(@, fn)]
    /\ UNCHANGED <<mesh, stop, main>>
    /\ UNCHANGED <<graphVars, lockVars, hubVars, config, members, route, built>>

\* serf.EventType.String() of the events serf puts on the event channel
EventTypes ==
    {"member-join", "member-leave", "member-failed", "member-update",
     "member-reap", "user", "query"}

\* the events that carry members
MemberEventTypes == {"member-join", "member-leave", "member-failed", "member-update", "member-reap"}

\* the members an event carries: one or two, each once
EventMembers == {<<"a">>, <<"b">>, <<"a", "b">>, <<"b", "a">>}

\* a plausible bug: the switch of handleEvent without EventMemberFailed
CallbacksForNotFailed(kind, joinCallbacks, leaveCallbacks) ==
    IF kind = "member-join" THEN joinCallbacks
    ELSE IF kind = "member-leave" THEN leaveCallbacks
    ELSE <<>>

\* the callback slice the handler of an event type reads for each member:
\* handleMemberJoin m.joinCallbacks, handleMemberLeave m.leaveCallbacks,
\* the other handlers none
CallbacksFor(kind, joinCallbacks, leaveCallbacks) ==
    IF kind = "member-join" THEN joinCallbacks
    ELSE IF kind \in {"member-leave", "member-failed"} THEN leaveCallbacks
    ELSE <<>>

\* the members the handler of an event type loops over
LoopMembers(e) ==
    IF e.kind \in {"member-join", "member-leave", "member-failed", "member-update"}
    THEN e.members
    ELSE <<>>

\* m.members after the handler's Store or Delete of one member
Stored(names, kind, name) ==
    IF kind \in {"member-join", "member-update"} THEN names \cup {name}
    ELSE names \ {name}

\* case e := <-m.eventCh: handleEvent is called with the next event
takeEvent(kind, ms) ==
    /\ cb.event.kind = "none" \/ cb.event.handled
    /\ (kind \in MemberEventTypes) = (ms # <<>>)
    /\ cb' = [cb EXCEPT !.event = [kind |-> kind, members |-> ms, done |-> 0,
                                   handled |-> FALSE],
                        !.before = [join |-> cb.join, leave |-> cb.leave],
                        !.started = <<>>]
    /\ UNCHANGED <<mesh, stop, main>>
    /\ UNCHANGED <<graphVars, lockVars, hubVars, config, members, route, built>>

\* one round of the handler's loop: Store or Delete of the member, the
\* callback slice read under m.mu.RLock(), and go fn(member) for each
handleEventMember ==
    /\ cb.event.kind # "none" /\ ~cb.event.handled
    /\ cb.event.done < Len(LoopMembers(cb.event))
    /\ LET member == cb.event.members[cb.event.done + 1]
           callbacks == CallbacksFor(cb.event.kind, cb.join, cb.leave)
           list == IF cb.event.kind = "member-join" THEN "join" ELSE "leave"
       IN  cb' = [cb EXCEPT !.members = Stored(@, cb.event.kind, member),
                            !.event.done = @ + 1,
                            !.started = @ \o [k \in 1..Len(callbacks) |->
                                [list |-> list, k |-> k, fn |-> callbacks[k],
                                 member |-> member]]]
    /\ UNCHANGED <<mesh, stop, main>>
    /\ UNCHANGED <<graphVars, lockVars, hubVars, config, members, route, built>>

\* the handler's loop is over (a type the switch has no case for: at once)
\* and handleEvent returns
handleEventReturn ==
    /\ cb.event.kind # "none" /\ ~cb.event.handled
    /\ cb.event.done = Len(LoopMembers(cb.event))
    /\ cb' = [cb EXCEPT !.event.handled = TRUE]
    /\ UNCHANGED <<mesh, stop, main>>
    /\ UNCHANGED <<graphVars, lockVars, hubVars, config, members, route, built>>

\* EventSpec: callbacks are registered at any time, also between two rounds
\* of a handler's loop, and the events are handled one after the other
EventNext ==
    \/ \E fn \in Funcs : OnJoin(fn)
    \/ \E fn \in Funcs : OnLeave(fn)
    \/ \E kind \in EventTypes, ms \in EventMembers \cup {<<>>} : takeEvent(kind, ms)
    \/ handleEventMember
    \/ handleEventReturn

EventSpec == Init /\ [][EventNext]_vars

\* the callback goroutines started for the event with registration k of a
\* list and a member
Invocations(list, k, member) ==
    Cardinality({i \in DOMAIN cb.started :
                    /\ cb.started[i].list = list
                    /\ cb.started[i].k = k
                    /\ cb.started[i].member = member})

\* the positions of a member in the event's member list
Carried(member) == {i \in DOMAIN cb.event.members : cb.event.members[i] = member}

\* C32: when a join event has been handled, each join callback registered
\* before the event was taken has been started exactly once with each
\* member the event carries, and no leave callback has been started; the
\* same for a leave or failed event and the leave callbacks; an update or
\* user event has started no callback; and every callback started for an
\* event got a member the event carries and is the function registered.
C32_CallbacksOncePerMember ==
    /\ cb.event.handled =>
          /\ cb.event.kind = "member-join" =>
                /\ \A i \in DOMAIN cb.event.members, k \in DOMAIN cb.before.join :
                      Invocations("join", k, cb.event.members[i]) = 1
                /\ \A i \in DOMAIN cb.started : cb.started[i].list = "join"
          /\ cb.event.kind \in {"member-leave", "member-failed"} =>
                /\ \A i \in DOMAIN cb.event.members, k \in DOMAIN cb.before.leave :
                      Invocations("leave", k, cb.event.members[i]) = 1
                /\ \A i \in DOMAIN cb.started : cb.started[i].list = "leave"
          /\ cb.event.kind \in {"member-update", "user"} => cb.started = <<>>
    /\ \A i \in DOMAIN cb.started :
          /\ Carried(cb.started[i].member) # {}
          /\ Invocations(cb.started[i].list, cb.started[i].k, cb.started[i].member) = 1
          /\ cb.started[i].fn =
                (IF cb.started[i].list = "join" THEN cb.join ELSE cb.leave)[cb.started[i].k]

\* a failed event that carries two members has been handled with two leave
\* callbacks registered before it
C32_Witness ==
    /\ cb.event.handled
    /\ cb.event.kind = "member-failed"
    /\ Len(cb.event.members) = 2
    /\ Len(cb.before.leave) = 2
    /\ Len(cb.before.join) > 0
    /\ Len(cb.started) = 4

====
